---- MODULE Spec2Model ----
(***************************************************************************)
(* Database routing layer of unified-montrg-api: alias discovery           *)
(* (app/core/config.py), engine provisioning and the scoped session        *)
(* (app/core/database.py), and the blocking CMMS path                      *)
(* (app/services/downtime.py, app/services/mttr_mtbf.py).                  *)
(*                                                                         *)
(* Python strings are sequences of one-character strings, so that          *)
(* str.lower, str.upper, str.startswith, str.endswith and str.replace are  *)
(* computed character by character.                                        *)
(***************************************************************************)
EXTENDS Integers, Sequences, FiniteSets, TLC

VARIABLES
    environ,            \* os.environ: sequence of <<key, value>> in insertion order
    settings,           \* the Settings() instance: its two fixed URL fields
    boot,               \* position of the import of app.core.database
    bootError,          \* the error that aborted the import, or "none"
    oracle,             \* what happened at oracledb.init_oracle_client
    todo,               \* items of the provisioning loop still to visit
    ASYNC_ENGINES,      \* dict keys, in insertion order
    SYNC_ENGINES,       \* dict keys, in insertion order
    SESSION_FACTORIES,  \* dict keys, in insertion order
    DEFAULT_DB_ALIAS,   \* module constant of app.core.database
    req,                \* one record per request task
    worker,             \* one record per asyncio.to_thread worker
    borrowed,           \* checked-out connections per engine alias
    discovered,         \* results of the database_urls calls made so far
    lastResolve,        \* the last resolve_db_alias call made outside a request
    added,              \* number of database_urls calls made before the entry was added, or -1
    dateCall,           \* the last call of a date resolver: its arguments and its outcome
    apiCall             \* the last call of an endpoint over the registry, and its outcome

vars == << environ, settings, boot, bootError, oracle, todo, ASYNC_ENGINES,
           SYNC_ENGINES, SESSION_FACTORIES, DEFAULT_DB_ALIAS, req, worker,
           borrowed, discovered, lastResolve, added, dateCall, apiCall >>

(***************************************************************************)
(* Bounds                                                                  *)
(***************************************************************************)
NumRequests == 2
MaxEnvLen == 2
MaxCalls == 2

\* Python's None, kept comparable with strings: no string has this character
None == << "<None>" >>

(***************************************************************************)
(* Python str operations                                                   *)
(*                                                                         *)
(* The characters of the model are those of Latin-1, written as they are,  *)
(* and the characters below, which a TLA+ string cannot hold and which are *)
(* written by their code points.                                           *)
(***************************************************************************)
LATIN_CAPITAL_LETTER_I_WITH_DOT_ABOVE == "<U+0130>"
LATIN_SMALL_LETTER_DOTLESS_I == "<U+0131>"
LATIN_CAPITAL_LETTER_Y_WITH_DIAERESIS == "<U+0178>"
LATIN_SMALL_LETTER_LONG_S == "<U+017F>"
COMBINING_DOT_ABOVE == "<U+0307>"
GREEK_CAPITAL_LETTER_MU == "<U+039C>"
GREEK_SMALL_LETTER_MU == "<U+03BC>"
ARABIC_INDIC_DIGIT_THREE == "<U+0663>"
KELVIN_SIGN == "<U+212A>"
IDEOGRAPHIC_SPACE == "<U+3000>"
FULLWIDTH_DIGIT_TWO == "<U+FF12>"

LowerLetters == << "a","b","c","d","e","f","g","h","i","j","k","l","m",
                   "n","o","p","q","r","s","t","u","v","w","x","y","z",
                   "à","á","â","ã","ä","å","æ","ç","è","é","ê","ë","ì",
                   "í","î","ï","ð","ñ","ò","ó","ô","õ","ö","ø","ù","ú",
                   "û","ü","ý","þ" >>
UpperLetters == << "A","B","C","D","E","F","G","H","I","J","K","L","M",
                   "N","O","P","Q","R","S","T","U","V","W","X","Y","Z",
                   "À","Á","Â","Ã","Ä","Å","Æ","Ç","È","É","Ê","Ë","Ì",
                   "Í","Î","Ï","Ð","Ñ","Ò","Ó","Ô","Õ","Ö","Ø","Ù","Ú",
                   "Û","Ü","Ý","Þ" >>

\* [0-9] of a regular expression
Digits == { "0","1","2","3","4","5","6","7","8","9" }

\* the decimal digits of Unicode: \d of a str pattern, and what int() reads
DecimalDigits == Digits \cup { ARABIC_INDIC_DIGIT_THREE, FULLWIDTH_DIGIT_TWO }

\* the other characters for which str.isdigit() is true: int() rejects them
SuperscriptDigits == { "²", "³", "¹" }

\* the characters for which str.isspace() is true, which are those of \s:
\* tab, line feed, vertical tab, form feed, carriage return, the separators
\* U+001C to U+001F, space, next line and no-break space
Whitespace == { "\t", "\n", "", "\f", "\r", "", "", "", "", " ", "", " ",
                IDEOGRAPHIC_SPACE }

Range(s) == { s[i] : i \in DOMAIN s }

ToLower == [ i \in DOMAIN UpperLetters |-> << UpperLetters[i], LowerLetters[i] >> ]

LowerOf == [ c \in Range(UpperLetters) |-> (CHOOSE p \in Range(ToLower) : p[1] = c)[2] ]

UpperOf == [ c \in Range(LowerLetters) |-> (CHOOSE p \in Range(ToLower) : p[2] = c)[1] ]

\* str.lower() of one character: the cased letters of Latin-1 map to one
\* character, LATIN CAPITAL LETTER I WITH DOT ABOVE to two
lower_char(c) ==
    IF c \in DOMAIN LowerOf THEN << LowerOf[c] >>
    ELSE IF c = LATIN_CAPITAL_LETTER_I_WITH_DOT_ABOVE THEN << "i", COMBINING_DOT_ABOVE >>
    ELSE IF c = LATIN_CAPITAL_LETTER_Y_WITH_DIAERESIS THEN << "ÿ" >>
    ELSE IF c = GREEK_CAPITAL_LETTER_MU THEN << GREEK_SMALL_LETTER_MU >>
    ELSE IF c = KELVIN_SIGN THEN << "k" >>
    ELSE << c >>

\* str.upper() of one character: sharp s becomes two characters, and the
\* upper case of y with diaeresis and of the micro sign lies outside Latin-1
upper_char(c) ==
    IF c \in DOMAIN UpperOf THEN << UpperOf[c] >>
    ELSE IF c = "ß" THEN << "S", "S" >>
    ELSE IF c = "ÿ" THEN << LATIN_CAPITAL_LETTER_Y_WITH_DIAERESIS >>
    ELSE IF c \in { "µ", GREEK_SMALL_LETTER_MU } THEN << GREEK_CAPITAL_LETTER_MU >>
    ELSE IF c = LATIN_SMALL_LETTER_DOTLESS_I THEN << "I" >>
    ELSE IF c = LATIN_SMALL_LETTER_LONG_S THEN << "S" >>
    ELSE << c >>

RECURSIVE lower(_)
lower(s) == IF Len(s) = 0 THEN << >> ELSE lower_char(s[1]) \o lower(Tail(s))

RECURSIVE upper(_)
upper(s) == IF Len(s) = 0 THEN << >> ELSE upper_char(s[1]) \o upper(Tail(s))

startswith(s, p) == /\ Len(p) <= Len(s)
                    /\ SubSeq(s, 1, Len(p)) = p

endswith(s, p) == /\ Len(p) <= Len(s)
                  /\ SubSeq(s, Len(s) - Len(p) + 1, Len(s)) = p

\* str.replace(old, new): every non-overlapping occurrence, left to right,
\* compared case-sensitively.
RECURSIVE replace(_, _, _)
replace(s, old, new) ==
    IF Len(s) = 0 \/ Len(old) = 0 THEN s
    ELSE IF startswith(s, old)
         THEN new \o replace(SubSeq(s, Len(old) + 1, Len(s)), old, new)
         ELSE << s[1] >> \o replace(Tail(s), old, new)

\* \d+ of a str pattern matches the whole of s
isdigits(s) == /\ Len(s) >= 1
               /\ \A i \in DOMAIN s : s[i] \in DecimalDigits

\* re.IGNORECASE: the character c matches the letter p of a pattern when the
\* two have the same lower case, or by one of the extra cases of the engine
\* (dotted and dotless i for I, long s for S, the Kelvin sign for K)
ExtraCases(p) ==
    IF p \in { "I", "i" }
    THEN { LATIN_CAPITAL_LETTER_I_WITH_DOT_ABOVE, LATIN_SMALL_LETTER_DOTLESS_I }
    ELSE IF p \in { "S", "s" } THEN { LATIN_SMALL_LETTER_LONG_S }
    ELSE IF p \in { "K", "k" } THEN { KELVIN_SIGN }
    ELSE { }

matches_ignorecase(p, c) == lower_char(c) = lower_char(p) \/ c \in ExtraCases(p)

\* the literal characters of a pattern match the whole of s, whatever the case
literal_match(literal, s) ==
    /\ Len(s) = Len(literal)
    /\ \A i \in DOMAIN literal : matches_ignorecase(literal[i], s[i])

(***************************************************************************)
(* String literals of the source                                          *)
(***************************************************************************)
S_DATABASE_URL == << "_","D","A","T","A","B","A","S","E","_","U","R","L" >>
S_IP == << "I","P" >>
S_BANB == << "B","A","N","B" >>
S_CTM == << "C","T","M" >>
S_CKP_ == << "C","K","P","_" >>
S_ip == << "i","p" >>
S_banb == << "b","a","n","b" >>
S_ctm == << "c","t","m" >>
S_montrg == << "m","o","n","t","r","g" >>
S_cmms == << "c","m","m","s" >>
S_oracle_oracledb == << "o","r","a","c","l","e","+","o","r","a","c","l","e","d","b" >>
S_montrg_database_url == S_montrg \o lower(S_DATABASE_URL)
S_cmms_database_url == S_cmms \o lower(S_DATABASE_URL)

(***************************************************************************)
(* app/core/config.py                                                      *)
(***************************************************************************)
\* $ of a pattern matches at the end of the string and also before one line
\* feed that ends the string: the part of key the pattern has to match
pattern_subject(key) ==
    IF Len(key) > 0 /\ key[Len(key)] = "\n" THEN SubSeq(key, 1, Len(key) - 1) ELSE key

\* match.group(1)
pattern_group(prefix, key) ==
    SubSeq(pattern_subject(key), Len(prefix) + 1,
           Len(pattern_subject(key)) - Len(S_DATABASE_URL))

\* re.compile(r'^<PREFIX>(\d+)_DATABASE_URL$', re.IGNORECASE).match(key)
pattern_match(prefix, key) ==
    LET subject == pattern_subject(key)
    IN  /\ Len(subject) > Len(prefix) + Len(S_DATABASE_URL)
        /\ literal_match(prefix, SubSeq(subject, 1, Len(prefix)))
        /\ literal_match(S_DATABASE_URL,
                         SubSeq(subject, Len(subject) - Len(S_DATABASE_URL) + 1, Len(subject)))
        /\ isdigits(pattern_group(prefix, key))

\* urls[alias] = value on an ordered dict: an existing key keeps its place.
dict_set(urls, alias, value) ==
    IF \E i \in DOMAIN urls : urls[i][1] = alias
    THEN [ i \in DOMAIN urls |-> IF urls[i][1] = alias THEN << alias, value >> ELSE urls[i] ]
    ELSE Append(urls, << alias, value >>)

\* the alias of the CKP_*_DATABASE_URL branch
ckp_alias(key) == lower(replace(key, S_DATABASE_URL, << >>))

\* one iteration of "for key, value in os.environ.items()"
scan_item(urls, key, value) ==
    IF Len(value) = 0 THEN urls
    ELSE IF pattern_match(S_IP, key)
         THEN dict_set(urls, S_ip \o lower(pattern_group(S_IP, key)), value)
    ELSE IF pattern_match(S_BANB, key)
         THEN dict_set(urls, S_banb \o lower(pattern_group(S_BANB, key)), value)
    ELSE IF pattern_match(S_CTM, key)
         THEN dict_set(urls, S_ctm \o lower(pattern_group(S_CTM, key)), value)
    ELSE IF startswith(upper(key), S_CKP_) /\ endswith(upper(key), S_DATABASE_URL)
         THEN dict_set(urls, ckp_alias(key), value)
    ELSE urls

RECURSIVE scan_environ(_, _)
scan_environ(urls, items) ==
    IF Len(items) = 0 THEN urls
    ELSE scan_environ(scan_item(urls, items[1][1], items[1][2]), Tail(items))

\* a field is truthy when it is neither None nor the empty string
truthy(v) == v # None /\ Len(v) > 0

\* faulty variant: the two fixed-name entries are written before the scan
fixed_first(env, st) ==
    LET withMontrg == IF truthy(st.montrg_database_url)
                      THEN << << S_montrg, st.montrg_database_url >> >>
                      ELSE << >>
        withCmms == IF truthy(st.cmms_database_url)
                    THEN dict_set(withMontrg, S_cmms, st.cmms_database_url)
                    ELSE withMontrg
    IN  scan_environ(withCmms, env)

\* Settings.database_urls, evaluated on the environment it is called in

database_urls(env, st) ==
    LET scanned == scan_environ(<< >>, env)
        withMontrg == IF truthy(st.montrg_database_url)
                      THEN dict_set(scanned, S_montrg, st.montrg_database_url)
                      ELSE scanned
    IN  IF truthy(st.cmms_database_url)
        THEN dict_set(withMontrg, S_cmms, st.cmms_database_url)
        ELSE withMontrg

keys(urls) == [ i \in DOMAIN urls |-> urls[i][1] ]

InDict(alias, urls) == \E i \in DOMAIN urls : urls[i][1] = alias

\* Settings.default_database_alias
default_database_alias(env, st) ==
    IF Len(database_urls(env, st)) = 0 THEN None ELSE database_urls(env, st)[1][1]

\* pydantic-settings reads a field from the environment by its name,
\* case-insensitively (case_sensitive=False), and ignores an empty value
\* (env_ignore_empty=True); of several matching keys the last one wins.
RECURSIVE env_field(_, _)
env_field(env, name) ==
    IF Len(env) = 0 THEN None
    ELSE LET last == env[Len(env)]
         IN  IF lower(last[1]) = name /\ Len(last[2]) > 0
             THEN last[2]
             ELSE env_field(SubSeq(env, 1, Len(env) - 1), name)

\* settings = Settings()
new_settings(env) ==
    [ montrg_database_url |-> env_field(env, S_montrg_database_url),
      cmms_database_url   |-> env_field(env, S_cmms_database_url) ]

(***************************************************************************)
(* Inputs: environment entries and connection URLs                         *)
(***************************************************************************)
U_mysql == << "m","y","s","q","l",":","/","/","a" >>
U_pg == << "p","o","s","t","g","r","e","s","q","l",":","/","/","b" >>
U_oracle == S_oracle_oracledb \o << ":","/","/","c" >>
U_ORACLE == upper(U_oracle)
U_oracle_thin == << "o","r","a","c","l","e",":","/","/","c" >>
U_blank == << " " >>
U_empty == << >>

K_IP04 == S_IP \o << "0","4" >> \o S_DATABASE_URL
K_ip04 == lower(K_IP04)
K_IP99 == S_IP \o << "9","9" >> \o S_DATABASE_URL
K_Banb01 == << "B","a","n","b","0","1","_","D","a","t","a","b","a","s","e","_","U","r","l" >>
K_CTM01 == S_CTM \o << "0","1" >> \o S_DATABASE_URL
K_CKP_CHILLER == S_CKP_ \o << "C","H","I","L","L","E","R" >> \o S_DATABASE_URL
K_ckp_chiller == lower(K_CKP_CHILLER)
K_IPX == S_IP \o << "X" >> \o S_DATABASE_URL
K_IP04_newline == K_IP04 \o << "\n" >>
K_dotless_ip3 == << LATIN_SMALL_LETTER_DOTLESS_I, "P", ARABIC_INDIC_DIGIT_THREE >> \o S_DATABASE_URL
K_MONTRG == upper(S_montrg_database_url)
K_CMMS == upper(S_cmms_database_url)

S_ip04 == << "i","p","0","4" >>
S_ip99 == << "i","p","9","9" >>
S_nope == << "n","o","p","e" >>
S_empty == << >>

EnvEntries ==
    { << K_IP04, U_mysql >>, << K_ip04, U_pg >>, << K_IP99, U_empty >>,
      << K_Banb01, U_mysql >>, << K_CTM01, U_mysql >>,
      << K_CKP_CHILLER, U_mysql >>, << K_ckp_chiller, U_mysql >>,
      << K_IPX, U_mysql >>, << K_IP04, U_blank >>,
      << K_IP04_newline, U_pg >>, << K_dotless_ip3, U_mysql >>,
      << K_MONTRG, U_pg >>, << K_MONTRG, U_blank >>,
      << K_CMMS, U_oracle >>, << K_CMMS, U_ORACLE >>, << K_CMMS, U_oracle_thin >> }

\* os.environ is a mapping: its keys are pairwise distinct
DistinctKeys(env) == \A i, j \in DOMAIN env : i # j => env[i][1] # env[j][1]

Environments ==
    { env \in UNION { [ 1..n -> EnvEntries ] : n \in 0..MaxEnvLen } : DistinctKeys(env) }

\* the environments of the request model
MainEnvironments ==
    { << << K_IP04, U_mysql >>, << K_MONTRG, U_pg >>, << K_CMMS, U_oracle >> >>,
      << << K_IP04, U_mysql >> >> }

\* db_alias arguments of the requests
SessionInputs == { None, S_montrg, S_cmms, S_nope }

\* what a CMMS query comes back with
QueryResults == { "rows", "QueryFailed" }

\* entries written to os.environ after the import
EnvChanges == { << K_IP99, U_mysql >>, << K_IP04, U_pg >>, << K_CMMS, U_oracle_thin >> }

\* aliases passed to resolve_db_alias, get_session and get_sync_engine
AliasInputs == { None, S_empty, S_ip04, S_ip99, S_montrg, S_cmms, S_nope }

(***************************************************************************)
(* app/core/database.py: import-time provisioning                          *)
(***************************************************************************)
Requests == 1..NumRequests

NoError == "none"

OracleOutcomes == { "initialized", "DPY-0005", "ProgrammingError", "DatabaseError", "ImportError" }

\* faulty variant: every ProgrammingError is swallowed
swallow_all_programming(outcome) == outcome \in { "initialized", "DPY-0005", "ProgrammingError" }

\* lines 26-33: the inner try lets the import go on after a clean
\* initialization and after a ProgrammingError that carries DPY-0005

oracle_init_continues(outcome) == outcome \in { "initialized", "DPY-0005" }

\* faulty variant: the scheme is compared without url.lower()
case_sensitive_sync(alias, url) == alias = S_cmms /\ startswith(url, S_oracle_oracledb)

\* line 62: the alias gets the synchronous engine

is_sync_alias(alias, url) == alias = S_cmms /\ startswith(lower(url), S_oracle_oracledb)

\* faulty variant: a session factory for every engine
factories_for_all(async, sync) == async \o sync

\* lines 67-70: a session factory per asynchronous engine

session_factories(async, sync) == async

\* line 72
default_db_alias(env, st) ==
    IF default_database_alias(env, st) # None
    THEN default_database_alias(env, st)
    ELSE database_urls(env, st)[1][1]

\* lines 75-77
available_databases == SESSION_FACTORIES

\* faulty variant: an unknown alias falls back to the default
substitute_default(alias) ==
    LET given == IF alias = None \/ Len(alias) = 0 THEN DEFAULT_DB_ALIAS ELSE alias
        resolved == IF InDict(given, database_urls(environ, settings)) THEN given ELSE DEFAULT_DB_ALIAS
    IN  [ alias |-> resolved, ok |-> TRUE, error |-> NoError, available |-> << >> ]

\* lines 80-85; line 82 is "alias or DEFAULT_DB_ALIAS"
resolve_db_alias(alias) ==
    LET resolved == IF alias = None \/ Len(alias) = 0 THEN DEFAULT_DB_ALIAS ELSE alias
    IN  IF ~InDict(resolved, database_urls(environ, settings))
        THEN [ alias |-> resolved, ok |-> FALSE, error |-> "UnknownAlias",
               available |-> available_databases ]
        ELSE [ alias |-> resolved, ok |-> TRUE, error |-> NoError, available |-> << >> ]

\* lines 88-96
get_sync_engine(alias) ==
    LET r == resolve_db_alias(alias)
    IN  IF ~r.ok THEN r
        ELSE IF r.alias \notin Range(SYNC_ENGINES)
             THEN [ r EXCEPT !.ok = FALSE, !.error = "NoSyncEngine" ]
             ELSE r

IdleRequest == [ alias |-> None, outcome |-> "none", error |-> NoError, kind |-> "none",
                 pc |-> "idle", db |-> None, session |-> 0,
                 conn |-> "none", exit |-> "none",
                 cancelled |-> FALSE, closing |-> FALSE, result |-> "none" ]

IdleWorker == [ result |-> "none", state |-> "none", on |-> "none", process |-> None ]

NoDateCall == [ fn |-> "none", args |-> << >>,
                out |-> [ value |-> None, raised |-> "none", msg |-> "" ] ]

NoCall == [ alias |-> None, ok |-> FALSE, error |-> NoError, available |-> << >>,
            called |-> FALSE, input |-> None ]

InitWith(envs) ==
    /\ environ \in envs
    /\ settings = new_settings(environ)
    /\ boot = "oracle_init"
    /\ bootError = NoError
    /\ oracle = "not_attempted"
    /\ todo = << >>
    /\ ASYNC_ENGINES = << >>
    /\ SYNC_ENGINES = << >>
    /\ SESSION_FACTORIES = << >>
    /\ DEFAULT_DB_ALIAS = None
    /\ req = [ r \in Requests |-> IdleRequest ]
    /\ worker = [ r \in Requests |-> IdleWorker ]
    /\ borrowed = << >>
    /\ discovered = << >>
    /\ lastResolve = NoCall
    /\ added = -1
    /\ dateCall = NoDateCall
    /\ apiCall = [ fn |-> "none", args |-> << >>, out |-> [ status_code |-> 0 ] ]

requestVars == << req, worker, borrowed >>
engineVars == << ASYNC_ENGINES, SYNC_ENGINES, SESSION_FACTORIES, DEFAULT_DB_ALIAS >>
configVars == << environ, settings >>

\* lines 18-40, with a cmms alias: oracledb.init_oracle_client is called
OracleInit ==
    /\ boot = "oracle_init"
    /\ InDict(S_cmms, database_urls(environ, settings))
    /\ \E outcome \in OracleOutcomes :
        /\ oracle' = outcome
        /\ IF oracle_init_continues(outcome)
           THEN boot' = "check_urls" /\ bootError' = bootError
           ELSE boot' = "aborted" /\ bootError' = "OracleInitFailed"
    /\ UNCHANGED << configVars, todo, engineVars, requestVars, discovered, lastResolve, added, dateCall, apiCall >>

\* line 18, without a cmms alias: the block is skipped
OracleSkip ==
    /\ boot = "oracle_init"
    /\ ~InDict(S_cmms, database_urls(environ, settings))
    /\ boot' = "check_urls"
    /\ UNCHANGED << configVars, bootError, oracle, todo, engineVars, requestVars,
                    discovered, lastResolve, added, dateCall, apiCall >>

\* lines 42-43 and the evaluation of the loop's iterable at line 53
CheckUrls ==
    /\ boot = "check_urls"
    /\ IF Len(database_urls(environ, settings)) = 0
       THEN boot' = "aborted" /\ bootError' = "NoDatabaseUrl" /\ todo' = todo
       ELSE boot' = "provision" /\ bootError' = bootError
            /\ todo' = database_urls(environ, settings)
    /\ UNCHANGED << configVars, oracle, engineVars, requestVars, discovered, lastResolve, added, dateCall, apiCall >>

\* lines 53-65: one iteration of the provisioning loop
ProvisionNext ==
    /\ boot = "provision"
    /\ Len(todo) > 0
    /\ LET alias == todo[1][1]
           url == todo[1][2]
       IN  /\ IF is_sync_alias(alias, url)
              THEN SYNC_ENGINES' = Append(SYNC_ENGINES, alias) /\ ASYNC_ENGINES' = ASYNC_ENGINES
              ELSE ASYNC_ENGINES' = Append(ASYNC_ENGINES, alias) /\ SYNC_ENGINES' = SYNC_ENGINES
           /\ borrowed' = [ a \in DOMAIN borrowed \cup { alias } |-> 0 ]
    /\ todo' = Tail(todo)
    /\ UNCHANGED << configVars, boot, bootError, oracle, SESSION_FACTORIES,
                    DEFAULT_DB_ALIAS, req, worker, discovered, lastResolve, added, dateCall, apiCall >>

\* lines 67-72: the session factories and the default alias
BuildFactories ==
    /\ boot = "provision"
    /\ Len(todo) = 0
    /\ SESSION_FACTORIES' = session_factories(ASYNC_ENGINES, SYNC_ENGINES)
    /\ DEFAULT_DB_ALIAS' = default_db_alias(environ, settings)
    /\ boot' = "running"
    /\ UNCHANGED << configVars, bootError, oracle, todo, ASYNC_ENGINES, SYNC_ENGINES,
                    requestVars, discovered, lastResolve, added, dateCall, apiCall >>

\* a caller resolves an alias (services call resolve_db_alias directly)
ResolveCall ==
    /\ boot = "running"
    /\ \E a \in AliasInputs :
        LET r == resolve_db_alias(a)
        IN  lastResolve' = [ alias |-> r.alias, ok |-> r.ok, error |-> r.error,
                             available |-> r.available, called |-> TRUE, input |-> a ]
    /\ UNCHANGED << configVars, boot, bootError, oracle, todo, engineVars, requestVars,
                    discovered, added, dateCall, apiCall >>

\* Settings.database_urls is read once more
Discover ==
    /\ Len(discovered) < MaxCalls
    /\ discovered' = Append(discovered, database_urls(environ, settings))
    /\ UNCHANGED << configVars, boot, bootError, oracle, todo, engineVars, requestVars,
                    lastResolve, added, dateCall, apiCall >>

\* os.environ[key] = value while the process runs
EnvSet ==
    /\ boot = "running"
    /\ \E e \in EnvChanges : environ' = dict_set(environ, e[1], e[2])
    /\ UNCHANGED << settings, boot, bootError, oracle, todo, engineVars, requestVars,
                    discovered, lastResolve, added, dateCall, apiCall >>

\* del os.environ[key] while the process runs
EnvDel ==
    /\ boot = "running"
    /\ \E i \in DOMAIN environ :
        environ' = SubSeq(environ, 1, i - 1) \o SubSeq(environ, i + 1, Len(environ))
    /\ UNCHANGED << settings, boot, bootError, oracle, todo, engineVars, requestVars,
                    discovered, lastResolve, added, dateCall, apiCall >>

\* entries added to the configuration between two reads of database_urls
NewEntries == { << K_IP99, U_mysql >>, << K_IP99, U_pg >> }

HasKey(env, key) == \E i \in DOMAIN env : env[i][1] = key

\* os.environ[key] = value for a key that is not set yet
AddEntry ==
    /\ added = -1
    /\ \E e \in NewEntries :
        /\ ~ HasKey(environ, e[1])
        /\ environ' = dict_set(environ, e[1], e[2])
    /\ added' = Len(discovered)
    /\ UNCHANGED << settings, boot, bootError, oracle, todo, engineVars, requestVars,
                    discovered, lastResolve, dateCall, apiCall >>

InitAdd == InitWith(Environments)
NextAdd == Discover \/ AddEntry
AddSpec == InitAdd /\ [][NextAdd]_vars

InitDisc == InitWith(Environments)
NextDisc == Discover
DiscSpec == InitDisc /\ [][NextDisc]_vars

InitBoot == InitWith(Environments)
NextBoot == OracleInit \/ OracleSkip \/ CheckUrls \/ ProvisionNext \/ BuildFactories \/ ResolveCall
BootSpec == InitBoot /\ [][NextBoot]_vars

NextEnv == NextBoot \/ EnvSet \/ EnvDel
InitEnv == InitWith(MainEnvironments)
EnvSpec == InitEnv /\ [][NextEnv]_vars


(***************************************************************************)
(* Python values used by the date resolvers: call outcomes, str methods,   *)
(* datetime and timedelta                                                  *)
(***************************************************************************)
\* what a call comes back with: a value, or the exception it raised
Ok(v) == [ value |-> v, raised |-> "none", msg |-> "" ]
Raise(kind, text) == [ value |-> None, raised |-> kind, msg |-> text ]

\* str.isdigit()
isdigit(s) == /\ Len(s) >= 1
              /\ \A i \in DOMAIN s : s[i] \in DecimalDigits \cup SuperscriptDigits

\* the value of a decimal digit
DigitValue == [ c \in DecimalDigits |->
    CASE c = "0" -> 0 [] c = "1" -> 1 [] c = "2" -> 2 [] c = "3" -> 3 [] c = "4" -> 4
      [] c = "5" -> 5 [] c = "6" -> 6 [] c = "7" -> 7 [] c = "8" -> 8 [] c = "9" -> 9
      [] c = ARABIC_INDIC_DIGIT_THREE -> 3 [] c = FULLWIDTH_DIGIT_TWO -> 2 ]

RECURSIVE digits_value(_)
digits_value(s) ==
    IF Len(s) = 0 THEN 0
    ELSE 10 * digits_value(SubSeq(s, 1, Len(s) - 1)) + DigitValue[s[Len(s)]]

\* int(s) for a string that passed str.isdigit(): the decimal digits are read
int(s) ==
    IF isdigits(s) THEN Ok(digits_value(s))
    ELSE Raise("ValueError", "invalid literal for int() with base 10")

\* s[a:b] with 0 <= a <= b
slice(s, a, b) == SubSeq(s, a + 1, IF b > Len(s) THEN Len(s) ELSE b)

\* c in s, for a one-character c
contains(s, c) == \E i \in DOMAIN s : s[i] = c

\* s.count(c), for a one-character c
count(s, c) == Cardinality({ i \in DOMAIN s : s[i] = c })

RECURSIVE lstrip(_)
lstrip(s) == IF Len(s) > 0 /\ s[1] \in Whitespace THEN lstrip(Tail(s)) ELSE s

RECURSIVE rstrip(_)
rstrip(s) ==
    IF Len(s) > 0 /\ s[Len(s)] \in Whitespace THEN rstrip(SubSeq(s, 1, Len(s) - 1)) ELSE s

strip(s) == rstrip(lstrip(s))

\* datetime.MINYEAR, datetime.MAXYEAR
MINYEAR == 1
MAXYEAR == 9999

is_leap(year) == year % 4 = 0 /\ (year % 100 # 0 \/ year % 400 = 0)

DAYS_IN_MONTH == << 31, 28, 31, 30, 31, 30, 31, 31, 30, 31, 30, 31 >>

days_in_month(year, month) ==
    IF month = 2 /\ is_leap(year) THEN 29 ELSE DAYS_IN_MONTH[month]

\* number of days before January 1st of year
days_before_year(year) ==
    LET y == year - 1 IN y * 365 + (y \div 4) - (y \div 100) + (y \div 400)

\* number of days in the year before the first day of month, leap day aside
RECURSIVE DAYS_BEFORE_MONTH(_)
DAYS_BEFORE_MONTH(month) ==
    IF month = 1 THEN 0 ELSE DAYS_BEFORE_MONTH(month - 1) + DAYS_IN_MONTH[month - 1]

days_before_month(year, month) ==
    DAYS_BEFORE_MONTH(month) + (IF month > 2 /\ is_leap(year) THEN 1 ELSE 0)

\* proleptic Gregorian ordinal of a date, January 1st of year 1 being day 1
ymd2ord(year, month, day) ==
    days_before_year(year) + days_before_month(year, month) + day

\* the date of an ordinal, as datetime's _ord2ymd computes it
ord2ymd(ordinal) ==
    LET DI400Y == days_before_year(401)
        DI100Y == days_before_year(101)
        DI4Y == days_before_year(5)
        n0 == ordinal - 1
        n400 == n0 \div DI400Y
        r400 == n0 % DI400Y
        n100 == r400 \div DI100Y
        r100 == r400 % DI100Y
        n4 == r100 \div DI4Y
        r4 == r100 % DI4Y
        n1 == r4 \div 365
        n == r4 % 365
        year == n400 * 400 + 1 + n100 * 100 + n4 * 4 + n1
        leapyear == n1 = 3 /\ (n4 # 24 \/ n100 = 3)
        guess == (n + 50) \div 32
        leapday(m) == IF m > 2 /\ leapyear THEN 1 ELSE 0
        month == IF DAYS_BEFORE_MONTH(guess) + leapday(guess) > n THEN guess - 1 ELSE guess
        preceding == DAYS_BEFORE_MONTH(month) + leapday(month)
    IN  IF n1 = 4 \/ n100 = 4
        THEN << year - 1, 12, 31 >>
        ELSE << year, month, n - preceding + 1 >>

\* a datetime is the tuple of its attributes
year_of(dt) == dt[1]
month_of(dt) == dt[2]
day_of(dt) == dt[3]
hour_of(dt) == dt[4]
minute_of(dt) == dt[5]
second_of(dt) == dt[6]
microsecond_of(dt) == dt[7]
tzinfo_of(dt) == dt[8]

\* datetime(year, month, day, hour, minute, second, microsecond, tzinfo=tzinfo)
datetime(year, month, day, hour, minute, second, microsecond, tzinfo) ==
    IF year < MINYEAR \/ year > MAXYEAR
    THEN Raise("ValueError", "year " \o ToString(year) \o " is out of range")
    ELSE IF month < 1 \/ month > 12
    THEN Raise("ValueError", "month must be in 1..12")
    ELSE IF day < 1 \/ day > days_in_month(year, month)
    THEN Raise("ValueError", "day is out of range for month")
    ELSE IF hour < 0 \/ hour > 23
    THEN Raise("ValueError", "hour must be in 0..23")
    ELSE IF minute < 0 \/ minute > 59
    THEN Raise("ValueError", "minute must be in 0..59")
    ELSE IF second < 0 \/ second > 59
    THEN Raise("ValueError", "second must be in 0..59")
    ELSE IF microsecond < 0 \/ microsecond > 999999
    THEN Raise("ValueError", "microsecond must be in 0..999999")
    ELSE Ok(<< year, month, day, hour, minute, second, microsecond, tzinfo >>)

\* dt + timedelta(days=days)
plus_days(dt, days) ==
    LET ordinal == ymd2ord(year_of(dt), month_of(dt), day_of(dt)) + days
    IN  IF ordinal < 1 \/ ordinal > ymd2ord(MAXYEAR, 12, 31)
        THEN Raise("OverflowError", "date value out of range")
        ELSE LET ymd == ord2ymd(ordinal)
             IN  Ok(ymd \o SubSeq(dt, 4, 8))

\* the fields two naive datetimes are compared by
fields(dt) == SubSeq(dt, 1, 7)

RECURSIVE tuple_lt(_, _)
tuple_lt(a, b) ==
    IF Len(a) = 0 THEN FALSE
    ELSE IF a[1] # b[1] THEN a[1] < b[1]
    ELSE tuple_lt(Tail(a), Tail(b))

\* a >= b for two naive datetimes
datetime_ge(a, b) == ~ tuple_lt(fields(a), fields(b))

\* start, end = <call>, <call>: the first exception raised wins
pair_of(start, end) ==
    IF start.raised # "none" THEN start
    ELSE IF end.raised # "none" THEN end
    ELSE Ok(<< start.value, end.value >>)

(***************************************************************************)
(* app/services/rtf_data.py and app/services/banb_data.py (the same code)  *)
(***************************************************************************)
M_date_key == "date_key must be numeric in formats YYYY, YYYYMM, or YYYYMMDD"
M_start_key == "start_key must represent a period earlier than end_key"

\* lines 144-147: the first day of the month after (year, month)
next_month(year, month) ==
    IF month = 12
    THEN datetime(year + 1, 1, 1, 0, 0, 0, 0, None)
    ELSE datetime(year, month + 1, 1, 0, 0, 0, 0, None)

\* lines 131-154
_resolve_date_key(date_key) ==
    IF Len(date_key) \notin { 4, 6, 8 } \/ ~ isdigit(date_key)
    THEN Raise("ValueError", M_date_key)
    ELSE
    LET day_of_key(start) ==
            IF start.raised # "none" THEN start ELSE pair_of(start, plus_days(start.value, 1))
        period(year, month, day) ==
            IF year.raised # "none" THEN year
            ELSE IF Len(date_key) = 4
            THEN pair_of(datetime(year.value, 1, 1, 0, 0, 0, 0, None),
                         datetime(year.value + 1, 1, 1, 0, 0, 0, 0, None))
            ELSE IF month.raised # "none" THEN month
            ELSE IF Len(date_key) = 6
            THEN pair_of(datetime(year.value, month.value, 1, 0, 0, 0, 0, None),
                         next_month(year.value, month.value))
            ELSE IF day.raised # "none" THEN day
            ELSE day_of_key(datetime(year.value, month.value, day.value, 0, 0, 0, 0, None))
    IN  period(int(slice(date_key, 0, 4)), int(slice(date_key, 4, 6)),
               int(slice(date_key, 6, 8)))

\* faulty variant: a missing bound is left unset
open_ended_range(start_key, end_key) ==
    LET ordered(start_dt, end_dt) ==
            IF start_dt # None /\ end_dt # None /\ datetime_ge(start_dt, end_dt)
            THEN Raise("ValueError", M_start_key)
            ELSE Ok(<< start_dt, end_dt >>)
        bounds(fromStart, fromEnd) ==
            IF fromStart.raised # "none" THEN fromStart
            ELSE IF fromEnd.raised # "none" THEN fromEnd
            ELSE ordered(fromStart.value[1], fromEnd.value[2])
    IN  bounds(IF truthy(start_key) THEN _resolve_date_key(start_key) ELSE Ok(<< None, None >>),
               IF truthy(end_key) THEN _resolve_date_key(end_key) ELSE Ok(<< None, None >>))

\* lines 22-46 of rtf_data.py (fetch_rtf_data_by_pid_and_range) and of
\* banb_data.py (fetch_banb_data_by_pid_and_range): the range that is handed
\* to the query, or the exception raised before it
pid_and_range(start_key, end_key) ==
    LET ordered(start_dt, end_dt) ==
            IF start_dt # None /\ end_dt # None /\ datetime_ge(start_dt, end_dt)
            THEN Raise("ValueError", M_start_key)
            ELSE Ok(<< start_dt, end_dt >>)
        bounds(fromStart, fromEnd) ==
            IF fromStart.raised # "none" THEN fromStart
            ELSE IF fromEnd.raised # "none" THEN fromEnd
            ELSE ordered(IF truthy(start_key) THEN fromStart.value[1]
                         ELSE IF truthy(end_key) THEN fromEnd.value[1]
                         ELSE None,
                         IF truthy(end_key) THEN fromEnd.value[2]
                         ELSE IF truthy(start_key) THEN fromStart.value[2]
                         ELSE None)
    IN  bounds(IF truthy(start_key) THEN _resolve_date_key(start_key) ELSE Ok(<< None, None >>),
               IF truthy(end_key) THEN _resolve_date_key(end_key) ELSE Ok(<< None, None >>))

(***************************************************************************)
(* Inputs of the date resolvers                                            *)
(***************************************************************************)
DigitChars == << "0", "1", "2", "3", "4", "5", "6", "7", "8", "9" >>

\* the decimal digits of n, zero-padded to width characters
RECURSIVE zfill(_, _)
zfill(n, width) ==
    IF width = 0 THEN << >>
    ELSE zfill(n \div 10, width - 1) \o << DigitChars[(n % 10) + 1] >>

YearInputs == { 0, 1, 1900, 2000, 2023, 2024, 9998, 9999 }
MonthInputs == 0..13
DayInputs == { 0, 1, 27, 28, 29, 30, 31, 32 }

DK_2024_12 == << "2", "0", "2", "4", "-", "1", "2" >>
DK_2024_12_05 == << "2", "0", "2", "4", "-", "1", "2", "-", "0", "5" >>
DK_2024_12_04 == << "2", "0", "2", "4", "-", "1", "2", "-", "0", "4" >>
DK_202 == << "2", "0", "2" >>
DK_20241 == << "2", "0", "2", "4", "1" >>
DK_abcd == << "a", "b", "c", "d" >>
DK_sup2024 == << "²", "0", "2", "4" >>
DK_2024sp == << "2", "0", "2", "4", " " >>
DK_arabic3024 == << ARABIC_INDIC_DIGIT_THREE, "0", "2", "4" >>
DK_fullwidth2024 == << FULLWIDTH_DIGIT_TWO, "0", "2", "4" >>
DK_202412051 == << "2", "0", "2", "4", "1", "2", "0", "5", "1" >>
DK_2024 == << "2", "0", "2", "4" >>
DK_2023 == << "2", "0", "2", "3" >>
DK_202412 == << "2", "0", "2", "4", "1", "2" >>
DK_202411 == << "2", "0", "2", "4", "1", "1" >>
DK_20241205 == << "2", "0", "2", "4", "1", "2", "0", "5" >>
DK_20241204 == << "2", "0", "2", "4", "1", "2", "0", "4" >>
DK_20241231 == << "2", "0", "2", "4", "1", "2", "3", "1" >>
DK_9999 == << "9", "9", "9", "9" >>
DK_202413 == << "2", "0", "2", "4", "1", "3" >>

\* keys of the three digit shapes, for real and for impossible dates
ShapedKeys ==
    { zfill(y, 4) : y \in YearInputs }
    \cup { zfill(y, 4) \o zfill(m, 2) : y \in YearInputs, m \in MonthInputs }
    \cup { zfill(y, 4) \o zfill(m, 2) \o zfill(d, 2) :
              y \in YearInputs, m \in MonthInputs, d \in DayInputs }

\* keys of other lengths or with other characters
MalformedKeys == { DK_2024_12, DK_2024_12_05, DK_202, DK_20241,
                   DK_abcd, DK_sup2024, DK_2024sp, DK_202412051, S_empty }

\* keys whose digits are not those of ASCII: str.isdigit() holds for them, and
\* int() reads them
UnicodeDigitKeys == { DK_arabic3024, DK_fullwidth2024 }

DateKeyInputs == ShapedKeys \cup MalformedKeys \cup UnicodeDigitKeys

\* start_key and end_key of the range endpoints
PairKeyInputs ==
    { None, S_empty, DK_2024, DK_2023, DK_202412, DK_202411, DK_20241205,
      DK_20241204, DK_20241231, DK_9999, DK_202413,
      DK_2024_12, DK_2024_12_05, DK_2024_12_04 }


(***************************************************************************)
(* datetime.strptime, for the directives the resolvers use                 *)
(***************************************************************************)
NonZeroDigits == Digits \ { "0" }

\* the regular expression of a format directive: its alternatives in the
\* order the engine tries them, each a sequence of character classes, \d
\* being every decimal digit and [0-9] the ten of ASCII; any other character
\* of a format stands for itself
DirectiveRegex(directive) ==
    CASE directive = "Y" -> << << DecimalDigits, DecimalDigits, DecimalDigits, DecimalDigits >> >>
      [] directive = "m" -> << << { "1" }, { "0", "1", "2" } >>,
                               << { "0" }, NonZeroDigits >>,
                               << NonZeroDigits >> >>
      [] directive = "d" -> << << { "3" }, { "0", "1" } >>,
                               << { "1", "2" }, DecimalDigits >>,
                               << { "0" }, NonZeroDigits >>,
                               << NonZeroDigits >>,
                               << { " " }, NonZeroDigits >> >>
      [] directive = "H" -> << << { "2" }, { "0", "1", "2", "3" } >>,
                               << { "0", "1" }, DecimalDigits >>,
                               << DecimalDigits >> >>
      [] directive = "M" -> << << { "0", "1", "2", "3", "4", "5" }, DecimalDigits >>,
                               << DecimalDigits >> >>
      [] directive = "S" -> << << { "6" }, { "0", "1" } >>,
                               << { "0", "1", "2", "3", "4", "5" }, DecimalDigits >>,
                               << DecimalDigits >> >>
      [] OTHER -> << << { directive } >> >>

\* the characters after offset pos belong to the classes, one by one
matches_at(classes, s, pos) ==
    /\ pos + Len(classes) <= Len(s)
    /\ \A i \in DOMAIN classes : s[pos + i] \in classes[i]

RECURSIVE whitespace_run(_, _)
whitespace_run(s, pos) ==
    IF pos < Len(s) /\ s[pos + 1] \in Whitespace THEN 1 + whitespace_run(s, pos + 1) ELSE 0

\* the lengths an element of the format can match at offset pos, in the
\* order the engine tries them; a space of the format is \s+, longest first
candidates(directive, s, pos) ==
    IF directive = " "
    THEN LET n == whitespace_run(s, pos) IN [ i \in 1..n |-> n + 1 - i ]
    ELSE LET Matches(classes) == matches_at(classes, s, pos)
             matching == SelectSeq(DirectiveRegex(directive), Matches)
         IN  [ i \in DOMAIN matching |-> Len(matching[i]) ]

NoMatch == << -1 >>

\* re.match of the compiled format at offset pos: the length each element
\* matched, found by backtracking, or NoMatch
RECURSIVE regex_match(_, _, _)
RECURSIVE try_candidates(_, _, _, _)
regex_match(format, s, pos) ==
    IF Len(format) = 0 THEN << >> ELSE try_candidates(format, s, pos, 1)

try_candidates(format, s, pos, k) ==
    LET c == candidates(format[1], s, pos)
    IN  IF k > Len(c) THEN NoMatch
        ELSE LET rest == regex_match(Tail(format), s, pos + c[k])
             IN  IF rest # NoMatch THEN << c[k] >> \o rest
                 ELSE try_candidates(format, s, pos, k + 1)

RECURSIVE sum(_)
sum(lens) == IF Len(lens) = 0 THEN 0 ELSE lens[1] + sum(Tail(lens))

\* the number a directive matched, or its default when the format lacks it
directive_value(directive, default, format, s, lens) ==
    IF \A i \in DOMAIN format : format[i] # directive THEN default
    ELSE LET i == CHOOSE j \in DOMAIN format : format[j] = directive
             before == sum(SubSeq(lens, 1, i - 1))
         IN  digits_value(lstrip(SubSeq(s, before + 1, before + lens[i])))

\* datetime.strptime(data_string, format), the format given by its elements
strptime(data_string, format) ==
    LET lens == regex_match(format, data_string, 0)
        value(directive, default) == directive_value(directive, default, format, data_string, lens)
    IN  IF lens = NoMatch
        THEN Raise("ValueError", "time data does not match format")
        ELSE IF sum(lens) # Len(data_string)
        THEN Raise("ValueError", "unconverted data remains")
        ELSE datetime(value("Y", 1900), value("m", 1), value("d", 1),
                      value("H", 0), value("M", 0), value("S", 0), 0, None)

F_Ymd_HMS == << "Y", "m", "d", " ", "H", ":", "M", ":", "S" >>
F_Ymd_HM == << "Y", "m", "d", " ", "H", ":", "M" >>
F_Ymd == << "Y", "m", "d" >>
F_Ym == << "Y", "m" >>
F_Y == << "Y" >>
F_Y_m_d_HMS == << "Y", "-", "m", "-", "d", " ", "H", ":", "M", ":", "S" >>
F_Y_m_d_HM == << "Y", "-", "m", "-", "d", " ", "H", ":", "M" >>
F_Y_m_d == << "Y", "-", "m", "-", "d" >>
F_Y_m == << "Y", "-", "m" >>

(***************************************************************************)
(* app/services/chiller_status.py and app/api/v1/chiller_status.py         *)
(***************************************************************************)
\* the messages, without the input value that is interpolated at their end
M_chiller_formats ==
    "Invalid date format. Supported formats: yyyy, yyyyMM, yyyyMMdd, yyyyMMdd HH:MM, yyyyMMdd HH:MM:SS. Input value: "
M_same_formats == "start_dt and end_dt formats must be the same. "
M_required == "start_dt or end_dt is required."

\* lines 81-103
_get_date_format_type(date_str) ==
    LET stripped == strip(date_str)
    IN  IF Len(stripped) = 19 /\ contains(stripped, " ") /\ contains(stripped, ":")
        THEN "yyyyMMdd HH:MM:SS"
        ELSE IF Len(stripped) = 16 /\ contains(stripped, " ") /\ contains(stripped, ":")
        THEN "yyyyMMdd HH:MM"
        ELSE IF Len(stripped) = 8 /\ isdigit(stripped) THEN "yyyyMMdd"
        ELSE IF Len(stripped) = 6 /\ isdigit(stripped) THEN "yyyyMM"
        ELSE IF Len(stripped) = 4 /\ isdigit(stripped) THEN "yyyy"
        ELSE "unknown"

\* try: return <call> / except ValueError: pass, through the listed attempts:
\* an attempt that raised a ValueError is passed over, and any other
\* exception leaves the function
RECURSIVE first_parsed(_, _)
first_parsed(attempts, otherwise) ==
    IF Len(attempts) = 0 THEN otherwise
    ELSE IF attempts[1].raised = "ValueError" THEN first_parsed(Tail(attempts), otherwise)
    ELSE attempts[1]

\* the attempt is made only when the shape test of its branch holds
attempt(test, outcome) == IF test THEN outcome ELSE Raise("ValueError", "branch not taken")

\* lines 106-164
_parse_date_string(date_str) ==
    LET parsed(stripped, spaced, digits) ==
            first_parsed(
                << attempt(Len(stripped) = 19 /\ spaced, strptime(stripped, F_Ymd_HMS)),
                   attempt(Len(stripped) = 16 /\ spaced, strptime(stripped, F_Ymd_HM)),
                   attempt(Len(stripped) = 8 /\ digits, strptime(stripped, F_Ymd)),
                   attempt(Len(stripped) = 6 /\ digits, strptime(stripped, F_Ym)),
                   attempt(Len(stripped) = 4 /\ digits, strptime(stripped, F_Y)) >>,
                Raise("ValueError", M_chiller_formats))
        spaces(stripped) ==
            parsed(stripped, contains(stripped, " ") /\ contains(stripped, ":"),
                   isdigit(stripped))
    IN  spaces(strip(date_str))

\* lines 194-202: the start bound
chiller_start(start_key) ==
    IF ~ truthy(start_key) THEN Ok(None)
    ELSE
    LET bound(start_dt, length) ==
            LET dt == start_dt.value
            IN  IF start_dt.raised # "none" THEN start_dt
                ELSE IF length = 4 THEN datetime(year_of(dt), 1, 1, 0, 0, 0, 0, None)
                ELSE IF length = 6 THEN datetime(year_of(dt), month_of(dt), 1, 0, 0, 0, 0, None)
                ELSE IF length = 8 /\ ~ contains(start_key, " ")
                THEN datetime(year_of(dt), month_of(dt), day_of(dt), 0, 0, 0, 0, None)
                ELSE start_dt
    IN  bound(_parse_date_string(start_key), Len(strip(start_key)))

\* lines 204-216: the end bound
chiller_end(end_key) ==
    IF ~ truthy(end_key) THEN Ok(None)
    ELSE
    LET bound(end_dt, length) ==
            LET dt == end_dt.value
            IN  IF end_dt.raised # "none" THEN end_dt
                ELSE IF length = 4 THEN datetime(year_of(dt) + 1, 1, 1, 0, 0, 0, 0, None)
                ELSE IF length = 6
                THEN IF month_of(dt) = 12
                     THEN datetime(year_of(dt) + 1, 1, 1, 0, 0, 0, 0, None)
                     ELSE datetime(year_of(dt), month_of(dt) + 1, 1, 0, 0, 0, 0, None)
                ELSE IF length = 8 /\ ~ contains(end_key, " ") THEN plus_days(dt, 1)
                ELSE end_dt
    IN  bound(_parse_date_string(end_key), Len(strip(end_key)))

\* lines 167-218: the format comparison, then the two bounds
resolve_date_range(start_key, end_key) ==
    IF /\ truthy(start_key) /\ truthy(end_key)
       /\ _get_date_format_type(start_key) # _get_date_format_type(end_key)
    THEN Raise("ValueError", M_same_formats \o "start_dt format: "
                             \o _get_date_format_type(start_key) \o ", end_dt format: "
                             \o _get_date_format_type(end_key))
    ELSE pair_of(chiller_start(start_key), chiller_end(end_key))

(***************************************************************************)
(* datetime.fromisoformat (Python 3.11) and datetime.timezone              *)
(***************************************************************************)
M_isoformat == "Invalid isoformat string"
InvalidIso == Raise("ValueError", M_isoformat)

\* s[pos:pos+1]: the character at offset pos, or the empty string
char_at(s, pos) == IF pos < Len(s) THEN s[pos + 1] ELSE ""

\* the number written by the n decimal digits at offset pos
digits_at(s, pos, n) ==
    IF pos + n <= Len(s) /\ n >= 1 /\ \A i \in (pos + 1)..(pos + n) : s[i] \in Digits
    THEN Ok(digits_value(slice(s, pos, pos + n)))
    ELSE InvalidIso

\* offset of the first character at or after idx that is no decimal digit
RECURSIVE digits_end(_, _)
digits_end(s, idx) ==
    IF idx < Len(s) /\ s[idx + 1] \in Digits THEN digits_end(s, idx + 1) ELSE idx

\* where the date part of a string of more than 6 characters ends
_find_isoformat_datetime_separator(dtstr) ==
    IF Len(dtstr) = 7 THEN Ok(7)
    ELSE IF char_at(dtstr, 4) = "-"
    THEN IF char_at(dtstr, 5) = "W"
         THEN IF Len(dtstr) > 8 /\ char_at(dtstr, 8) = "-"
              THEN IF Len(dtstr) = 9 THEN InvalidIso
                   ELSE IF Len(dtstr) > 10 /\ char_at(dtstr, 10) \in Digits THEN Ok(8)
                   ELSE Ok(10)
              ELSE Ok(8)
         ELSE Ok(10)
    ELSE IF char_at(dtstr, 4) = "W"
    THEN LET idx == digits_end(dtstr, 7)
         IN  IF idx < 9 THEN Ok(idx) ELSE IF idx % 2 = 0 THEN Ok(7) ELSE Ok(8)
    ELSE Ok(8)

\* the Monday that starts ISO week 1 of year, as an ordinal
_isoweek1monday(year) ==
    LET firstday == ymd2ord(year, 1, 1)
        firstweekday == (firstday + 6) % 7
    IN  IF firstweekday > 3 THEN firstday - firstweekday + 7 ELSE firstday - firstweekday

\* the date of an ISO week date; the year is not checked, and for the year 0
\* the ordinal arithmetic ends below month 1, which the constructor of the
\* date refuses; no week 53 is found for the year 0
_isoweek_to_gregorian(year, week, day) ==
    LET first_weekday == ymd2ord(year, 1, 1) % 7
        long_year == /\ year >= MINYEAR
                     /\ first_weekday = 4 \/ (first_weekday = 3 /\ is_leap(year))
    IN  IF ~ (0 < week /\ week < 53) /\ ~ (week = 53 /\ long_year) THEN InvalidIso
        ELSE IF ~ (0 < day /\ day < 8) THEN InvalidIso
        ELSE IF year < MINYEAR THEN Raise("ValueError", "month must be in 1..12")
        ELSE Ok(ord2ymd(_isoweek1monday(year) + (week - 1) * 7 + (day - 1)))

\* YYYY-MM-DD, YYYYMMDD, YYYY-Www, YYYYWww, YYYY-Www-D or YYYYWwwD
_parse_isoformat_date(dtstr) ==
    LET year == digits_at(dtstr, 0, 4)
        has_sep == IF char_at(dtstr, 4) = "-" THEN 1 ELSE 0
        pos == 4 + has_sep
        weekno == digits_at(dtstr, pos + 1, 2)
        dayno == IF Len(dtstr) > pos + 3 THEN digits_at(dtstr, pos + 3 + has_sep, 1) ELSE Ok(1)
        month == digits_at(dtstr, pos, 2)
        day == digits_at(dtstr, pos + 2 + has_sep, 2)
        dash(p) == (char_at(dtstr, p) = "-") = (has_sep = 1)
    IN  IF year.raised # "none" THEN InvalidIso
        ELSE IF char_at(dtstr, pos) = "W"
        THEN IF weekno.raised # "none" THEN InvalidIso
             ELSE IF Len(dtstr) > pos + 3 /\ ~ dash(pos + 3) THEN InvalidIso
             ELSE IF dayno.raised # "none" THEN InvalidIso
             ELSE _isoweek_to_gregorian(year.value, weekno.value, dayno.value)
        ELSE IF month.raised # "none" THEN InvalidIso
             ELSE IF ~ dash(pos + 2) THEN InvalidIso
             ELSE IF day.raised # "none" THEN InvalidIso
             ELSE Ok(<< year.value, month.value, day.value >>)

\* the outcome of a component parser: rv is 0 at the end of the string, 1 when
\* something follows the parsed part, and negative when the part is malformed
Parsed(rv, comps) == [ rv |-> rv, comps |-> comps ]
Malformed == Parsed(-1, << 0, 0, 0, 0 >>)

\* the fraction of a second that starts at offset p and ends before p_end
fraction_at(s, p_end, p, comps) ==
    LET len_remains == p_end - p
        to_parse == IF len_remains >= 6 THEN 6 ELSE len_remains
        parsed == digits_at(s, p, to_parse)
        correction == << 100000, 10000, 1000, 100, 10, 1 >>
        after == digits_end(s, p + to_parse)
    IN  IF parsed.raised # "none" THEN Malformed
        ELSE Parsed(IF char_at(s, after) # "" THEN 1 ELSE 0,
                    [ comps EXCEPT ![4] = parsed.value * correction[to_parse] ])

\* HH[:MM[:SS[.fff[fff]]]] or HH[MM[SS[.fff[fff]]]] between the offsets p and
\* p_end of s; i is the component being read
RECURSIVE parse_hh_mm_ss_ff(_, _, _, _, _, _)
parse_hh_mm_ss_ff(s, p_end, i, p, has_separator, comps) ==
    LET parsed == digits_at(s, p, 2)
        c == char_at(s, p + 2)
        separated == IF i = 0 THEN c = ":" ELSE has_separator
        q == p + 3
        read == [ comps EXCEPT ![i + 1] = parsed.value ]
    IN  IF i = 3 THEN fraction_at(s, p_end, p, comps)
        ELSE IF parsed.raised # "none" THEN Malformed
        ELSE IF q >= p_end THEN Parsed(IF c # "" THEN 1 ELSE 0, read)
        ELSE IF separated /\ c = ":" THEN parse_hh_mm_ss_ff(s, p_end, i + 1, q, separated, read)
        ELSE IF c \in { ".", "," } THEN fraction_at(s, p_end, q, read)
        ELSE IF ~ separated THEN parse_hh_mm_ss_ff(s, p_end, i + 1, q - 1, separated, read)
        ELSE Malformed

timezone_utc == << "timezone", 0, 0 >>

M_timezone_range ==
    "offset must be a timedelta strictly between -timedelta(hours=24) and timedelta(hours=24)"

\* timezone(timedelta(seconds=tzoffset, microseconds=tz_useconds)), where a
\* whole offset of zero seconds is UTC whatever its microseconds
tzinfo_from_isoformat_results(tzoffset, tz_useconds) ==
    IF tzoffset = 0 THEN Ok(timezone_utc)
    ELSE IF tzoffset >= 86400 \/ tzoffset <= -86400 THEN Raise("ValueError", M_timezone_range)
    ELSE Ok(<< "timezone", tzoffset, tz_useconds >>)

\* offset of the first "Z", "+" or "-" of tstr, or its length
RECURSIVE tzinfo_pos(_, _)
tzinfo_pos(tstr, pos) ==
    IF pos >= Len(tstr) THEN Len(tstr)
    ELSE IF tstr[pos + 1] \in { "Z", "+", "-" } THEN pos
    ELSE tzinfo_pos(tstr, pos + 1)

\* HH[:MM[:SS[.fff[fff]]]][Z or +HH[:MM[:SS[.ffffff]]]]: hour, minute, second,
\* microsecond and tzinfo
parse_isoformat_time(tstr) ==
    LET tz_at == tzinfo_pos(tstr, 0)
        time == parse_hh_mm_ss_ff(tstr, tz_at, 0, 0, FALSE, << 0, 0, 0, 0 >>)
        tzsign == IF char_at(tstr, tz_at) = "-" THEN -1 ELSE 1
        tz == parse_hh_mm_ss_ff(tstr, Len(tstr), 0, tz_at + 1, FALSE, << 0, 0, 0, 0 >>)
        tzoffset == tzsign * (tz.comps[1] * 3600 + tz.comps[2] * 60 + tz.comps[3])
        with(tzinfo) == IF tzinfo.raised # "none" THEN tzinfo
                        ELSE Ok(time.comps \o << tzinfo.value >>)
    IN  IF time.rv < 0 THEN InvalidIso
        ELSE IF tz_at = Len(tstr) THEN IF time.rv = 1 THEN InvalidIso ELSE with(Ok(None))
        ELSE IF tstr[tz_at + 1] = "Z"
        THEN IF tz_at + 1 # Len(tstr) THEN InvalidIso ELSE with(Ok(timezone_utc))
        ELSE IF tz.rv # 0 THEN InvalidIso
        ELSE with(tzinfo_from_isoformat_results(tzoffset, tzsign * tz.comps[4]))

\* datetime.fromisoformat(date_string)
fromisoformat(date_string) ==
    LET separator_location == _find_isoformat_datetime_separator(date_string)
        dstr == slice(date_string, 0, separator_location.value)
        tstr == slice(date_string, separator_location.value + 1, Len(date_string))
        date_components == _parse_isoformat_date(dstr)
        time_components == IF Len(date_string) > separator_location.value
                           THEN parse_isoformat_time(tstr)
                           ELSE Ok(<< 0, 0, 0, 0, None >>)
        d == date_components.value
        t == time_components.value
    IN  IF Len(date_string) < 7 THEN InvalidIso
        ELSE IF separator_location.raised # "none" THEN InvalidIso
        ELSE IF date_components = InvalidIso THEN InvalidIso
        ELSE IF time_components.raised # "none" THEN time_components
        ELSE IF date_components.raised # "none" THEN date_components
        ELSE datetime(d[1], d[2], d[3], t[1], t[2], t[3], t[4], t[5])


(***************************************************************************)
(* app/services/banbury_anomaly_detection.py                               *)
(***************************************************************************)

\* line 15: the timezone of naive inputs
DEFAULT_TZ == << "Asia/Seoul" >>

M_cycle_formats ==
    "Invalid date format. Supported formats: yyyy, yyyyMM, yyyyMMdd, yyyy-MM, YYYY-MM-DD, "
    \o "YYYY-MM-DD HH:MM, YYYY-MM-DD HH:MM:SS. Input value: "

\* <call>.replace(tzinfo=tzinfo)
replace_tzinfo(parsed, tzinfo) ==
    IF parsed.raised # "none" THEN parsed ELSE Ok([ parsed.value EXCEPT ![8] = tzinfo ])

\* lines 41-48: ISO 8601 first; a naive result is given the default timezone
iso_dt(date_str) ==
    LET zoned(parsed) ==
            IF parsed.raised # "none" THEN parsed
            ELSE IF tzinfo_of(parsed.value) = None THEN replace_tzinfo(parsed, DEFAULT_TZ)
            ELSE parsed
    IN  zoned(fromisoformat(replace(date_str, << "Z" >>, << "+", "0", "0", ":", "0", "0" >>)))

\* datetime(parsed.year, parsed.month, 1, tzinfo=tzinfo)
first_of_month(parsed, tzinfo) ==
    IF parsed.raised # "none" THEN parsed
    ELSE datetime(year_of(parsed.value), month_of(parsed.value), 1, 0, 0, 0, 0, tzinfo)

\* datetime(int(date_str), 1, 1, tzinfo=tzinfo)
first_of_year(date_str, tzinfo) ==
    LET january(year) ==
            IF year.raised # "none" THEN year
            ELSE datetime(year.value, 1, 1, 0, 0, 0, 0, tzinfo)
    IN  january(int(date_str))

\* faulty variant: a naive input is read as UTC
parse_as_utc(date_str) ==
    LET zoned(parsed) ==
            IF parsed.raised # "none" THEN Raise("ValueError", M_cycle_formats)
            ELSE IF tzinfo_of(parsed.value) = None THEN replace_tzinfo(parsed, timezone_utc)
            ELSE parsed
    IN  zoned(fromisoformat(replace(strip(date_str), << "Z" >>, << "+", "0", "0", ":", "0", "0" >>)))

\* lines 18-118

_parse_cycle_start_date(date_str) ==
    LET parsed(stripped, spaced, dashes, colons, digits) ==
            first_parsed(
                << iso_dt(stripped),
                   attempt(Len(stripped) = 19 /\ spaced /\ colons >= 1,
                           replace_tzinfo(strptime(stripped, F_Ymd_HMS), DEFAULT_TZ)),
                   attempt(Len(stripped) = 16 /\ spaced /\ colons >= 1
                              /\ ~ contains(slice(stripped, 0, 10), "-"),
                           replace_tzinfo(strptime(stripped, F_Ymd_HM), DEFAULT_TZ)),
                   attempt(Len(stripped) = 19 /\ spaced /\ dashes = 2 /\ colons = 2,
                           replace_tzinfo(strptime(stripped, F_Y_m_d_HMS), DEFAULT_TZ)),
                   attempt(Len(stripped) = 16 /\ spaced /\ dashes = 2 /\ colons = 1,
                           replace_tzinfo(strptime(stripped, F_Y_m_d_HM), DEFAULT_TZ)),
                   attempt(Len(stripped) = 10 /\ dashes = 2,
                           replace_tzinfo(strptime(stripped, F_Y_m_d), DEFAULT_TZ)),
                   attempt(Len(stripped) = 8 /\ digits,
                           replace_tzinfo(strptime(stripped, F_Ymd), DEFAULT_TZ)),
                   attempt(Len(stripped) = 7 /\ dashes = 1,
                           first_of_month(strptime(stripped, F_Y_m), DEFAULT_TZ)),
                   attempt(Len(stripped) = 6 /\ digits,
                           first_of_month(strptime(stripped, F_Ym), DEFAULT_TZ)),
                   attempt(Len(stripped) = 4 /\ digits,
                           first_of_year(stripped, DEFAULT_TZ)) >>,
                Raise("ValueError", M_cycle_formats))
        counted(stripped) ==
            parsed(stripped, contains(stripped, " "), count(stripped, "-"),
                   count(stripped, ":"), isdigit(stripped))
    IN  counted(strip(date_str))

\* start_dt.tzinfo or DEFAULT_TZ
tzinfo_or_default(dt) == IF tzinfo_of(dt) = None THEN DEFAULT_TZ ELSE tzinfo_of(dt)

\* lines 137-152: the start bound
cycle_start(start_key) ==
    IF ~ truthy(start_key) THEN Ok(None)
    ELSE
    LET bound(start_dt, start_key_stripped) ==
            LET dt == start_dt.value
                length == Len(start_key_stripped)
                tz == tzinfo_or_default(dt)
            IN  IF start_dt.raised # "none" THEN start_dt
                ELSE IF length = 4 THEN datetime(year_of(dt), 1, 1, 0, 0, 0, 0, tz)
                ELSE IF length = 6 /\ isdigit(start_key_stripped)
                THEN datetime(year_of(dt), month_of(dt), 1, 0, 0, 0, 0, tz)
                ELSE IF length = 7 /\ contains(start_key_stripped, "-")
                THEN datetime(year_of(dt), month_of(dt), 1, 0, 0, 0, 0, tz)
                ELSE IF length = 8 /\ isdigit(start_key_stripped)
                THEN datetime(year_of(dt), month_of(dt), day_of(dt), 0, 0, 0, 0, tz)
                ELSE IF length = 10 /\ count(start_key_stripped, "-") = 2
                THEN datetime(year_of(dt), month_of(dt), day_of(dt), 0, 0, 0, 0, tz)
                ELSE start_dt
    IN  bound(_parse_cycle_start_date(start_key), strip(start_key))

\* lines 154-173: the end bound
cycle_end(end_key) ==
    IF ~ truthy(end_key) THEN Ok(None)
    ELSE
    LET bound(end_dt, end_key_stripped) ==
            LET dt == end_dt.value
                length == Len(end_key_stripped)
                tz == tzinfo_or_default(dt)
                following == IF month_of(dt) = 12
                             THEN datetime(year_of(dt) + 1, 1, 1, 0, 0, 0, 0, tz)
                             ELSE datetime(year_of(dt), month_of(dt) + 1, 1, 0, 0, 0, 0, tz)
            IN  IF end_dt.raised # "none" THEN end_dt
                ELSE IF length = 4 THEN datetime(year_of(dt) + 1, 1, 1, 0, 0, 0, 0, tz)
                ELSE IF length = 6 /\ isdigit(end_key_stripped) THEN following
                ELSE IF length = 7 /\ contains(end_key_stripped, "-") THEN following
                ELSE IF length = 8 /\ isdigit(end_key_stripped) THEN plus_days(dt, 1)
                ELSE IF length = 10 /\ count(end_key_stripped, "-") = 2 THEN plus_days(dt, 1)
                ELSE end_dt
    IN  bound(_parse_cycle_start_date(end_key), strip(end_key))

\* lines 121-175
_resolve_cycle_start_range(start_key, end_key) ==
    pair_of(cycle_start(start_key), cycle_end(end_key))



(***************************************************************************)
(* Inputs of the device-history and cycle-start resolvers                  *)
(***************************************************************************)
CK_minute == << "2", "0", "2", "4", "1", "2", "0", "5", " ", "1", "4", ":", "3", "0" >>
CK_second == << "2", "0", "2", "4", "1", "2", "0", "5", " ", "1", "4", ":", "3", "0", ":", "0", "0" >>
CK_minute_padded == << "2", "0", "2", "4", "1", "2", "0", "5", " ", " ", " ", "1", "4", ":", "3", "0" >>
CK_second_padded == << "2", "0", "2", "4", "1", "2", "0", "5", " ", " ", " ", "1", "4", ":", "3", "0", ":", "0", "0" >>
CK_2024_spaced == << IDEOGRAPHIC_SPACE, "2", "0", "2", "4", "\n" >>
CK_minute_nbsp == << "2", "0", "2", "4", "1", "2", "0", "5", " ", " ", " ", "4", ":", "3", "0" >>
CY_minute == << "2", "0", "2", "4", "-", "1", "2", "-", "0", "5", " ", "1", "4", ":", "3", "0" >>
CY_second == << "2", "0", "2", "4", "-", "1", "2", "-", "0", "5", " ", "1", "4", ":", "3", "0", ":", "0", "0" >>
CY_iso_T == << "2", "0", "2", "4", "-", "1", "2", "-", "0", "5", "T", "1", "4", ":", "3", "0", ":", "0", "0" >>
CY_iso_kst == << "2", "0", "2", "4", "-", "1", "2", "-", "0", "5", "T", "1", "4", ":", "3", "0", ":", "0", "0", "+", "0", "9", ":", "0", "0" >>
CY_iso_Z == << "2", "0", "2", "4", "-", "1", "2", "-", "0", "5", "T", "1", "4", ":", "3", "0", ":", "0", "0", "Z" >>
CY_iso_utc == << "2", "0", "2", "4", "-", "1", "2", "-", "0", "5", "T", "0", "5", ":", "3", "0", ":", "0", "0", "+", "0", "0", ":", "0", "0" >>
CY_iso_est == << "2", "0", "2", "4", "-", "1", "2", "-", "0", "5", "T", "1", "4", ":", "3", "0", ":", "0", "0", "-", "0", "5", ":", "0", "0" >>
CY_invalid_date == << "i", "n", "v", "a", "l", "i", "d", "-", "d", "a", "t", "e" >>
CY_9999_12_31 == << "9", "9", "9", "9", "-", "1", "2", "-", "3", "1" >>
\* a day of the daylight saving time of Asia/Seoul (+10:00), a year of its
\* local mean time, and an offset with microseconds
CY_1988_07_01 == << "1", "9", "8", "8", "-", "0", "7", "-", "0", "1" >>
DK_1900 == << "1", "9", "0", "0" >>
CY_iso_kst_us ==
    << "2", "0", "2", "4", "-", "1", "2", "-", "0", "5", "T", "0", "0", ":", "0", "0", ":", "0", "0",
       "+", "0", "9", ":", "0", "0", ":", "0", "0", ".", "0", "0", "0", "0", "0", "1" >>
\* a start inside a bucket of ten minutes
CK_minute_35 == << "2", "0", "2", "4", "1", "2", "0", "5", " ", " ", " ", "1", "4", ":", "3", "5" >>
\* ISO week dates, which datetime.fromisoformat accepts from year 1 on
CY_week_2024 == << "2", "0", "2", "4", "-", "W", "4", "9", "-", "4" >>
CY_week_0000 == << "0", "0", "0", "0", "-", "W", "0", "1", "-", "1" >>

\* start_dt and end_dt of the device-history endpoint
ChillerKeyInputs ==
    { None, S_empty, DK_2024, DK_2023, DK_202412, DK_202411, DK_20241205,
      DK_20241204, DK_9999, DK_202413, DK_abcd, DK_2024_12_05,
      CK_minute, CK_second, CK_minute_padded, CK_second_padded,
      CK_2024_spaced, CK_minute_nbsp, DK_arabic3024, CK_minute_35 }

\* YYYY-MM and YYYY-MM-DD
dashed_month(y, m) == zfill(y, 4) \o << "-" >> \o zfill(m, 2)
dashed_day(y, m, d) == dashed_month(y, m) \o << "-" >> \o zfill(d, 2)

SepYears == { 2024, 9999 }
SepMonths == { 2, 12, 13 }
SepDays == { 5, 29, 31 }

\* the separator forms and the digits-only keys of the same periods
SeparatorKeys ==
    { dashed_month(y, m) : y \in SepYears, m \in SepMonths }
    \cup { dashed_day(y, m, d) : y \in SepYears, m \in SepMonths \ { 13 }, d \in SepDays }
DigitKeys ==
    { zfill(y, 4) \o zfill(m, 2) : y \in SepYears, m \in SepMonths }
    \cup { zfill(y, 4) \o zfill(m, 2) \o zfill(d, 2) :
              y \in SepYears, m \in SepMonths \ { 13 }, d \in SepDays }

\* cycle_start_from and cycle_start_to of the anomaly endpoint
CycleKeyInputs ==
    { None, S_empty, DK_2024, DK_9999, DK_abcd, DK_20241204, DK_2024_12_04,
      CY_minute, CY_second, CY_iso_T, CY_iso_kst, CY_iso_Z, CY_iso_utc, CY_iso_est,
      CK_minute, CK_second, CY_invalid_date, CY_week_2024, CY_week_0000,
      CY_1988_07_01, DK_1900, CY_iso_kst_us }
    \cup SeparatorKeys \cup DigitKeys

\* date.today().strftime("%Y-%m-%d")
TodayInputs == { DK_2024_12_05, CY_9999_12_31 }

(***************************************************************************)
(* The tables and the statements of the range queries                      *)
(***************************************************************************)
\* timedelta(seconds=seconds, microseconds=microseconds) of less than a day,
\* as << seconds, microseconds >> with 0 <= microseconds < 10^6
timedelta(seconds, microseconds) ==
    << seconds + (microseconds \div 1000000), microseconds % 1000000 >>

\* the transitions of Asia/Seoul in the time zone database: the wall-clock
\* time (of fold 0) from which an offset holds, and the offset in seconds
SeoulTransitions ==
    << << << 1908, 4, 1, 0, 2, 8 >>, 30600 >>,
       << << 1912, 1, 1, 0, 30, 0 >>, 32400 >>,
       << << 1945, 9, 8, 0, 0, 0 >>, 32400 >>,
       << << 1948, 6, 1, 1, 0, 0 >>, 36000 >>,
       << << 1948, 9, 13, 0, 0, 0 >>, 32400 >>,
       << << 1949, 4, 3, 1, 0, 0 >>, 36000 >>,
       << << 1949, 9, 11, 0, 0, 0 >>, 32400 >>,
       << << 1950, 4, 1, 1, 0, 0 >>, 36000 >>,
       << << 1950, 9, 10, 0, 0, 0 >>, 32400 >>,
       << << 1951, 5, 6, 1, 0, 0 >>, 36000 >>,
       << << 1951, 9, 9, 0, 0, 0 >>, 32400 >>,
       << << 1954, 3, 21, 0, 0, 0 >>, 30600 >>,
       << << 1955, 5, 5, 1, 0, 0 >>, 34200 >>,
       << << 1955, 9, 9, 0, 0, 0 >>, 30600 >>,
       << << 1956, 5, 20, 1, 0, 0 >>, 34200 >>,
       << << 1956, 9, 30, 0, 0, 0 >>, 30600 >>,
       << << 1957, 5, 5, 1, 0, 0 >>, 34200 >>,
       << << 1957, 9, 22, 0, 0, 0 >>, 30600 >>,
       << << 1958, 5, 4, 1, 0, 0 >>, 34200 >>,
       << << 1958, 9, 21, 0, 0, 0 >>, 30600 >>,
       << << 1959, 5, 3, 1, 0, 0 >>, 34200 >>,
       << << 1959, 9, 20, 0, 0, 0 >>, 30600 >>,
       << << 1960, 5, 1, 1, 0, 0 >>, 34200 >>,
       << << 1960, 9, 18, 0, 0, 0 >>, 30600 >>,
       << << 1961, 8, 10, 0, 30, 0 >>, 32400 >>,
       << << 1987, 5, 10, 3, 0, 0 >>, 36000 >>,
       << << 1987, 10, 11, 3, 0, 0 >>, 32400 >>,
       << << 1988, 5, 8, 3, 0, 0 >>, 36000 >>,
       << << 1988, 10, 9, 3, 0, 0 >>, 32400 >> >>

\* ZoneInfo("Asia/Seoul").utcoffset(dt), in seconds, of the wall-clock time
\* << year, month, day, hour, minute, second >> of dt: the offset of the last
\* of the first i transitions that is not after it, local mean time (+08:27:52)
\* before the first
RECURSIVE seoul_utcoffset(_, _)
seoul_utcoffset(wall, i) ==
    IF i = 0 THEN 30472
    ELSE IF ~ tuple_lt(wall, SeoulTransitions[i][1]) THEN SeoulTransitions[i][2]
    ELSE seoul_utcoffset(wall, i - 1)

\* dt.utcoffset(): None of a naive datetime, the offset of Asia/Seoul at the
\* wall-clock time of dt, or the fixed offset of a datetime.timezone with its
\* microseconds
utcoffset(dt) ==
    IF tzinfo_of(dt) = None THEN None
    ELSE IF tzinfo_of(dt) = DEFAULT_TZ
    THEN timedelta(seoul_utcoffset(SubSeq(dt, 1, 6), Len(SeoulTransitions)), 0)
    ELSE timedelta(tzinfo_of(dt)[2], tzinfo_of(dt)[3])

\* the instant of a datetime as (day, second of the day, microsecond): in UTC
\* of an aware datetime, the wall-clock time of a naive one; the two
\* datetimes a statement compares are both naive or both aware
Instant(dt) ==
    LET offset == IF utcoffset(dt) = None THEN << 0, 0 >> ELSE utcoffset(dt)
        microseconds == microsecond_of(dt) - offset[2]
        seconds == hour_of(dt) * 3600 + minute_of(dt) * 60 + second_of(dt)
                   - offset[1] + (microseconds \div 1000000)
    IN  << ymd2ord(year_of(dt), month_of(dt), day_of(dt)) + (seconds \div 86400),
           seconds % 86400, microseconds % 1000000 >>
Earlier(a, b) == tuple_lt(Instant(a), Instant(b))

\* column >= bound and column < bound, column <= bound in a WHERE clause; a
\* NULL column satisfies no comparison
column_ge(column, bound) == column # None /\ ~ Earlier(column, bound)
column_lt(column, bound) == column # None /\ Earlier(column, bound)
column_le(column, bound) == column # None /\ ~ Earlier(bound, column)

\* ORDER BY: the rows of the set S in ascending order of key[row], a tuple of
\* numbers; no two rows of a table of the model have the same key
RECURSIVE order_by(_, _)
order_by(S, key) ==
    IF S = { } THEN << >>
    ELSE LET row == CHOOSE x \in S : \A y \in S : ~ tuple_lt(key[y], key[x])
         IN  << row >> \o order_by(S \ { row }, key)

\* LIMIT n
LIMIT(rows, n) == SubSeq(rows, 1, IF n < Len(rows) THEN n ELSE Len(rows))

\* the timestamps of the rows of the tables: the instants around the ends of
\* 2024-12-04 and 2024-12-05, of December and of 2024
RowDates ==
    { << 2024, 11, 30 >>, << 2024, 12, 1 >>, << 2024, 12, 4 >>, << 2024, 12, 5 >>,
      << 2024, 12, 6 >>, << 2024, 12, 31 >>, << 2025, 1, 1 >> }
RowTimes == { << 0, 0, 0, 0 >>, << 0, 0, 0, 1 >>, << 14, 30, 0, 0 >>, << 23, 59, 59, 999999 >> }

\* timestamps without a time zone
NaiveRows == { d \o t \o << None >> : d \in RowDates, t \in RowTimes }

\* app/models/rtf_data.py lines 20-22: a row of RtfData
HmiRow(SeqNo, PID, RxDate) == [ SeqNo |-> SeqNo, PID |-> PID, RxDate |-> RxDate ]

\* the table RtfData of an HMI database: the timestamps under PID 1 with SeqNo
\* in the order of RxDate, then a row of PID 2, a row of PID 1 written after
\* the others for an earlier RxDate, and a row without RxDate
RtfData ==
    LET chronological == order_by(NaiveRows, [ t \in NaiveRows |-> fields(t) ])
    IN  { HmiRow(i, 1, chronological[i]) : i \in DOMAIN chronological }
        \cup { HmiRow(29, 2, << 2024, 12, 5, 6, 0, 0, 0, None >>),
               HmiRow(30, 1, << 2024, 12, 4, 12, 0, 0, 0, None >>),
               HmiRow(31, 1, None) }

\* ORDER BY SeqNo ASC: the rows of RtfData in the order of SeqNo, of which a
\* statement keeps those its WHERE clause selects
RtfDataBySeqNo == order_by(RtfData, [ row \in RtfData |-> << row.SeqNo >> ])

\* rtf_data.py and banb_data.py lines 103-112: PID = pid, and RxDate >= start
\* and RxDate < end for the bounds that are not None
hmi_where(row, pid, start, end) ==
    /\ row.PID = pid
    /\ start # None => column_ge(row.RxDate, start)
    /\ end # None => column_lt(row.RxDate, end)

\* datetime.isoformat(sep) of a naive datetime
isoformat(dt, sep) ==
    zfill(year_of(dt), 4) \o << "-" >> \o zfill(month_of(dt), 2) \o << "-" >>
    \o zfill(day_of(dt), 2) \o << sep >> \o zfill(hour_of(dt), 2) \o << ":" >>
    \o zfill(minute_of(dt), 2) \o << ":" >> \o zfill(second_of(dt), 2)
    \o (IF microsecond_of(dt) = 0 THEN << >>
        ELSE << "." >> \o zfill(microsecond_of(dt), 6))

\* app/schemas/rtf_data.py: HmiDataResponse(PID=PID, values=values), each
\* HmiData of values by its rxdate
HmiDataResponse(PID, values) == << "HmiDataResponse", PID, values >>

S_CKP001 == << "C", "K", "P", "0", "0", "1" >>
S_CKP004 == << "C", "K", "P", "0", "0", "4" >>

\* app/models/chiller_status.py lines 19-29: a row of the table status
StatusRow(device_id, upd_dt) == [ device_id |-> device_id, upd_dt |-> upd_dt ]

\* the devices of the table status in the order of ORDER BY device_id
StatusDevices == << S_CKP001, S_CKP004 >>

\* the table status: the timestamps and two readings of one ten minutes under
\* CKP004, two readings of a second device
ChillerStatus ==
    { StatusRow(S_CKP004, t) : t \in NaiveRows }
    \cup { StatusRow(S_CKP004, << 2024, 12, 5, 14, 36, 0, 0, None >>),
           StatusRow(S_CKP004, << 2024, 12, 5, 14, 39, 59, 999999, None >>),
           StatusRow(S_CKP001, << 2024, 12, 5, 14, 36, 0, 0, None >>),
           StatusRow(S_CKP001, << 2024, 12, 6, 0, 0, 0, 0, None >>) }

\* str.zfill(width) of a string of digits
str_zfill(s, width) ==
    IF Len(s) >= width THEN s ELSE [ i \in 1..(width - Len(s)) |-> "0" ] \o s

\* RIGHT(s, n) of PostgreSQL and s[-n:] of Python, n > 0
right(s, n) == IF Len(s) <= n THEN s ELSE SubSeq(s, Len(s) - n + 1, Len(s))

\* chiller_status.py lines 65-78
_format_chiller_name(device_id) ==
    IF ~ truthy(device_id) THEN device_id
    ELSE << "C", "h", "i", "l", "l", "e", "r", " " >> \o right(device_id, 2)

\* chiller_status.py lines 565-585: the WHERE clause; the device by its
\* number or by its name, upd_dt >= start_dt and upd_dt < end_dt for the
\* bounds given, both sides read as Asia/Jakarta wall-clock times
status_where(row, device_id, start_dt, end_dt) ==
    /\ truthy(device_id) =>
            IF isdigit(device_id) THEN right(row.device_id, 2) = str_zfill(device_id, 2)
            ELSE row.device_id = device_id
    /\ start_dt # None => column_ge(row.upd_dt, start_dt)
    /\ end_dt # None => column_lt(row.upd_dt, end_dt)

\* chiller_status.py lines 590-593: upd_dt truncated to the minute, less its
\* minute modulo 10; the time zone of the session, in which the statement
\* takes the minute, is at a multiple of ten minutes from Asia/Jakarta
bucket_time(upd_dt) ==
    [ upd_dt EXCEPT ![5] = @ - (@ % 10), ![6] = 0, ![7] = 0 ]

\* app/schemas/chiller_status.py: ChillerStatusHistoryRecord, each
\* ChillerStatusHistoryItem of history by its bucket_time
ChillerStatusHistoryRecord(device_id, history) ==
    [ device_id |-> device_id, history |-> history ]

\* chiller_status.py lines 587-637: GROUP BY device_id, bucket_time ORDER BY
\* device_id, bucket_time of the selected rows, and the items of each device
\* in that order under the name of the device, the devices in the order of
\* their device_id
status_history(selected) ==
    LET device_rank(d) == CHOOSE i \in DOMAIN StatusDevices : StatusDevices[i] = d
        groups == { << row.device_id, bucket_time(row.upd_dt) >> : row \in selected }
        rows == order_by(groups, [ g \in groups |->
                            << device_rank(g[1]) >> \o fields(g[2]) ])
        of_device(d) == SelectSeq(rows, LAMBDA g : g[1] = d)
        grouped == SelectSeq(StatusDevices, LAMBDA d : of_device(d) # << >>)
    IN  [ i \in DOMAIN grouped |->
            ChillerStatusHistoryRecord(
                _format_chiller_name(grouped[i]),
                [ j \in DOMAIN of_device(grouped[i]) |-> of_device(grouped[i])[j][2] ]) ]

\* GET /banbury-anomaly-detection: the filters of a request other than the
\* range, by their name (no, shift, mode, is_anomaly, is_3_stage, result); a
\* parameter that is not given (None) has no name in the record
NoFilters == [ f \in { } |-> None ]
S_normal == << "n", "o", "r", "m", "a", "l" >>
S_manual == << "m", "a", "n", "u", "a", "l" >>
FilterInputs ==
    { NoFilters, [ no |-> S_empty ], [ no |-> zfill(7, 4) ], [ shift |-> 0 ],
      [ shift |-> 1 ], [ is_anomaly |-> TRUE ],
      [ result |-> FALSE, mode |-> S_normal ] }

\* banbury_anomaly_detection.py (API) lines 64-66
has_any_filter(filters) ==
    \/ "no" \in DOMAIN filters /\ truthy(filters.no)
    \/ "shift" \in DOMAIN filters
    \/ "mode" \in DOMAIN filters /\ truthy(filters.mode)
    \/ "is_anomaly" \in DOMAIN filters
    \/ "is_3_stage" \in DOMAIN filters
    \/ "result" \in DOMAIN filters

\* timestamps with a time zone: the instants of the table, and those at which
\* 1988-07-01 begins in Asia/Seoul under its offset of that summer (+10:00)
\* and under +09:00
AwareRows ==
    ({ d \o t \o << DEFAULT_TZ >> : d \in RowDates, t \in RowTimes }
        \ { << 2024, 12, 6, 0, 0, 0, 0, DEFAULT_TZ >> })
    \cup { << 2024, 12, 5, 15, 0, 0, 0, timezone_utc >>,
           << 1988, 6, 30, 14, 0, 0, 0, timezone_utc >>,
           << 1988, 6, 30, 14, 30, 0, 0, timezone_utc >>,
           << 1988, 6, 30, 15, 0, 0, 0, timezone_utc >> }

\* the rows of AwareRows in descending order of their instant
AwareRowsDesc ==
    LET key == [ t \in AwareRows |-> << - Instant(t)[1], - Instant(t)[2], - Instant(t)[3] >> ]
    IN  order_by(AwareRows, key)

\* app/models/banbury_anomaly_detection.py lines 18-47: a row of
\* gold.banbury_anomaly_result, by its key, its cycle_start and the columns
\* the filters read
BanburyRow(i, at) ==
    [ result |-> i % 20 = 0, cycle_start |-> at, no |-> zfill(i, 4),
      shift |-> (i % 3) + 1, is_anomaly |-> i % 4 = 0,
      mode |-> IF i % 2 = 0 THEN S_normal ELSE S_manual, is_3_stage |-> i % 5 = 0 ]

\* the table, in the order of ORDER BY cycle_start DESC, of which a statement
\* keeps the rows its WHERE clause selects
BanburyAnomalyResult ==
    [ i \in DOMAIN AwareRowsDesc |-> BanburyRow(i, AwareRowsDesc[i]) ]

\* banbury_anomaly_detection.py lines 206-221: the WHERE clause; no and mode
\* filter when they are not empty, the others when they are given, and
\* cycle_start >= cycle_start_from and cycle_start <= cycle_start_to
banbury_where(row, filters, cycle_start_from, cycle_start_to) ==
    /\ "no" \in DOMAIN filters /\ truthy(filters.no) => row.no = filters.no
    /\ "shift" \in DOMAIN filters => row.shift = filters.shift
    /\ "mode" \in DOMAIN filters /\ truthy(filters.mode) => row.mode = filters.mode
    /\ "is_anomaly" \in DOMAIN filters => row.is_anomaly = filters.is_anomaly
    /\ "is_3_stage" \in DOMAIN filters => row.is_3_stage = filters.is_3_stage
    /\ "result" \in DOMAIN filters => row.result = filters.result
    /\ cycle_start_from # None => column_ge(row.cycle_start, cycle_start_from)
    /\ cycle_start_to # None => column_le(row.cycle_start, cycle_start_to)

S_ckp_chiller == << "c","k","p","_","c","h","i","l","l","e","r" >>

\* the bounds of a statement with what the coroutine returns
RangeRows(start, end, result) == [ result |-> result, start |-> start, end |-> end ]

\* database.py lines 102-105: the alias get_session opens its session on, or
\* the ValueError it raises before any session exists
session_alias(db_alias) ==
    LET factory_of(res) ==
            IF ~res.ok THEN res
            ELSE IF res.alias \notin Range(SESSION_FACTORIES)
                 THEN [ res EXCEPT !.ok = FALSE, !.error = "StrategyMismatch" ]
                 ELSE res
    IN  factory_of(resolve_db_alias(db_alias))

M_unknown_alias == "Unknown database alias"
M_no_async_session == "Asynchronous session is not configured for alias"
M_query_failed == "QueryFailed"

\* database.py lines 84 and 104: the ValueError of a failed session_alias
alias_error(res) ==
    Raise("ValueError", IF res.error = "UnknownAlias" THEN M_unknown_alias
                        ELSE M_no_async_session)

\* the coroutine waits inside its "async with get_session(...)" block
Suspended == [ value |-> None, raised |-> "pending", msg |-> "" ]

\* "async with get_session(db_alias) as session" is entered, res being
\* session_alias(db_alias): the coroutine goes on into the block and waits
\* for its query, or the ValueError of get_session is raised in it
opening(res) == IF res.ok THEN Suspended ELSE alias_error(res)

\* the block has sent its statement and waits for the rows: frame holds the
\* two bounds and then the other arguments of the coroutine
awaiting(frame) == [ value |-> frame, raised |-> "pending", msg |-> "" ]

\* the value of a coroutine whose only await is the query of its get_session
\* block, the block having come to "block": still waiting, left with the rows
\* of which the coroutine returns result, or left by an exception, which no
\* handler of the services catches
query_result(frame, result, block) ==
    IF block.raised = "pending" THEN awaiting(frame)
    ELSE IF block.raised # "none" THEN block
    ELSE Ok(RangeRows(frame[1], frame[2], result))

\* rtf_data.py lines 92-128 (_fetch_rtf_data) and banb_data.py lines 92-128
\* (_fetch_banb_data), db_alias omitted: the rows of pid in the range, the
\* first "limit" of them in the order of SeqNo; None when there is none
_fetch_rtf_data(pid, limit, start, end, block) ==
    LET rows == LIMIT(SelectSeq(RtfDataBySeqNo,
                                LAMBDA row : hmi_where(row, pid, start, end)), limit)
        values == [ i \in DOMAIN rows |->
                        IF rows[i].RxDate = None THEN None
                        ELSE isoformat(rows[i].RxDate, " ") ]
    IN  query_result(<< start, end, pid, limit >>,
                     IF rows = << >> THEN None
                     ELSE HmiDataResponse(zfill(rows[1].PID, 11), values),
                     block)

\* rtf_data.py lines 22-46 (fetch_rtf_data_by_pid_and_range) and banb_data.py
\* lines 22-46 (fetch_banb_data_by_pid_and_range): the keys are resolved and
\* the query is awaited
fetch_rtf_data_by_pid_and_range(pid, limit, start_key, end_key, block) ==
    LET fetched(resolved) ==
            IF resolved.raised # "none" THEN resolved
            ELSE _fetch_rtf_data(pid, limit, resolved.value[1], resolved.value[2], block)
    IN  fetched(pid_and_range(start_key, end_key))

\* chiller_status.py lines 544-637, on the alias "ckp_chiller"
fetch_chiller_status_history_by_range(device_id, start_dt, end_dt, block) ==
    query_result(<< start_dt, end_dt, device_id >>,
                 status_history({ row \in ChillerStatus :
                                    status_where(row, device_id, start_dt, end_dt) }),
                 block)

\* banbury_anomaly_detection.py lines 178-245, on the alias "montrg": the
\* selected rows, the latest cycle_start first
fetch_banbury_anomaly_results(filters, cycle_start_from, cycle_start_to, block) ==
    query_result(<< cycle_start_from, cycle_start_to, filters >>,
                 SelectSeq(BanburyAnomalyResult,
                           LAMBDA row : banbury_where(row, filters, cycle_start_from,
                                                      cycle_start_to)),
                 block)

\* the except clauses of the two device-history endpoints: ValueError becomes
\* a 400, an HTTPException goes on as it is, any other Exception becomes a
\* 500; a CancelledError is no Exception and goes on
HttpErrors == { "HTTP 400", "HTTP 404", "HTTP 500", "HTTP 503" }
endpoint_error(outcome) ==
    IF outcome.raised = "ValueError" THEN Raise("HTTP 400", outcome.msg)
    ELSE IF outcome.raised \in { "none", "pending", "CancelledError" } \cup HttpErrors
    THEN outcome
    ELSE Raise("HTTP 500", "Internal server error: " \o outcome.msg)

M_earlier == "start_dt must be earlier than end_dt"

\* app/api/v1/chiller_status.py lines 67-110: GET /chiller-status/history/range
get_chiller_status_history_by_range(device_id, start_dt, end_dt, block) ==
    LET history(start_datetime, end_datetime) ==
            IF /\ start_datetime # None /\ end_datetime # None
               /\ datetime_ge(start_datetime, end_datetime)
            THEN Raise("HTTP 400", M_earlier)
            ELSE fetch_chiller_status_history_by_range(device_id, start_datetime,
                                                       end_datetime, block)
        response(resolved) ==
            IF ~ truthy(start_dt) /\ ~ truthy(end_dt) THEN Raise("HTTP 400", M_required)
            ELSE IF resolved.raised # "none" THEN resolved
            ELSE history(resolved.value[1], resolved.value[2])
    IN  endpoint_error(response(resolve_date_range(start_dt, end_dt)))

\* app/api/v1/banbury_anomaly_detection.py lines 62-97: GET
\* /banbury-anomaly-detection; today is date.today().strftime("%Y-%m-%d")
get_banbury_anomaly_results(filters, today, cycle_start_from, cycle_start_to, block) ==
    LET defaulted == /\ cycle_start_from = None /\ cycle_start_to = None
                     /\ ~ has_any_filter(filters)
        response(resolved) ==
            IF resolved.raised # "none" THEN resolved
            ELSE fetch_banbury_anomaly_results(filters, resolved.value[1],
                                               resolved.value[2], block)
    IN  endpoint_error(response(
            _resolve_cycle_start_range(IF defaulted THEN today ELSE cycle_start_from,
                                       IF defaulted THEN today ELSE cycle_start_to)))

M_key_required == "start_key or end_key must be provided."
M_no_data == "No data found for the provided filters"

\* app/api/v1/banb_data.py lines 164-184: what the endpoint makes of the
\* awaited service call; ValueError is the one exception it catches, any
\* other becomes the server error of the framework
range_response(response) ==
    IF response.raised = "ValueError" THEN Raise("HTTP 400", response.msg)
    ELSE IF response.raised \in { "pending", "CancelledError" } THEN response
    ELSE IF response.raised # "none" THEN Raise("HTTP 500", "Internal Server Error")
    ELSE IF response.value.result = None THEN Raise("HTTP 404", M_no_data)
    ELSE response

\* app/api/v1/banb_data.py lines 145-184 with db omitted: GET
\* /banb-data/{pid}/range
get_banb_data_by_range(pid, start_key, end_key, limit, block) ==
    IF ~ truthy(start_key) /\ ~ truthy(end_key) THEN Raise("HTTP 400", M_key_required)
    ELSE range_response(fetch_rtf_data_by_pid_and_range(pid, limit, start_key, end_key,
                                                        block))

(***************************************************************************)
(* app/services/productivity_shift.py                                      *)
(***************************************************************************)
\* line 8: ZoneInfo("Asia/Jakarta")
JAKARTA_TZ == << "Asia/Jakarta" >>

\* the largest ordinal of a date
MAXORDINAL == ymd2ord(MAXYEAR, 12, 31)

\* ZoneInfo("Asia/Jakarta").utcoffset, in seconds, at the UTC instant
\* << ordinal, second of the day >>: local mean time up to 1923, then the
\* changes of 1932, 1942, 1945, 1948, 1950 and 1964 (+07:00 since)
jakarta_utcoffset(utc) ==
    IF tuple_lt(utc, << 702360, 60000 >>) THEN 25632
    ELSE IF tuple_lt(utc, << 705587, 60000 >>) THEN 26400
    ELSE IF tuple_lt(utc, << 709016, 59400 >>) THEN 27000
    ELSE IF tuple_lt(utc, << 710296, 54000 >>) THEN 32400
    ELSE IF tuple_lt(utc, << 711247, 59400 >>) THEN 27000
    ELSE IF tuple_lt(utc, << 711977, 57600 >>) THEN 28800
    ELSE IF tuple_lt(utc, << 716970, 59400 >>) THEN 27000
    ELSE 25200

\* dt + timedelta(seconds=seconds, microseconds=microseconds), tzinfo kept
plus_seconds(dt, seconds, microseconds) ==
    LET us == microsecond_of(dt) + microseconds
        s == hour_of(dt) * 3600 + minute_of(dt) * 60 + second_of(dt) + seconds
             + (us \div 1000000)
        ordinal == ymd2ord(year_of(dt), month_of(dt), day_of(dt)) + (s \div 86400)
        second == s % 86400
    IN  IF ordinal < 1 \/ ordinal > MAXORDINAL
        THEN Raise("OverflowError", "date value out of range")
        ELSE Ok(ord2ymd(ordinal)
                \o << second \div 3600, (second % 3600) \div 60, second % 60,
                      us % 1000000, tzinfo_of(dt) >>)

\* dt.replace(tzinfo=tzinfo)
set_tzinfo(dt, tzinfo) == [ dt EXCEPT ![8] = tzinfo ]

\* dt.astimezone(JAKARTA_TZ) of an aware datetime whose tzinfo is JAKARTA_TZ
\* itself or a datetime.timezone: the UTC time first, then tz.fromutc
astimezone(dt) ==
    IF tzinfo_of(dt) = JAKARTA_TZ THEN Ok(dt)
    ELSE LET utc == plus_seconds(dt, - tzinfo_of(dt)[2], - tzinfo_of(dt)[3])
         IN  IF utc.raised # "none" THEN utc
             ELSE LET at == << ymd2ord(year_of(utc.value), month_of(utc.value),
                                       day_of(utc.value)),
                               hour_of(utc.value) * 3600 + minute_of(utc.value) * 60
                               + second_of(utc.value) >>
                  IN  plus_seconds(set_tzinfo(utc.value, JAKARTA_TZ),
                                   jakarta_utcoffset(at), 0)

\* lines 11-16; clock is what datetime.now(tz=JAKARTA_TZ) returns
_dt_in_jakarta(now, clock) ==
    IF now = None THEN Ok(clock)
    ELSE IF tzinfo_of(now) = None THEN Ok(set_tzinfo(now, JAKARTA_TZ))
    ELSE astimezone(now)

\* datetime.weekday(): Monday is 0, Sunday is 6
weekday(dt) == (ymd2ord(year_of(dt), month_of(dt), day_of(dt)) + 6) % 7

\* datetime.date()
date(dt) == SubSeq(dt, 1, 3)

\* time(hour, minute)
time(hour, minute) == << hour, minute >>

\* lines 32-34: datetime.combine(base.date(), t, tzinfo=JAKARTA_TZ)
combine(t, base) ==
    << year_of(base), month_of(base), day_of(base), t[1], t[2], 0, 0, JAKARTA_TZ >>

\* faulty variant: the boundary itself counts as before the boundary
datetime_le(a, b) == ~ tuple_lt(fields(b), fields(a))

\* a < b for two datetimes with the same tzinfo: their fields are compared

datetime_lt(a, b) == tuple_lt(fields(a), fields(b))

\* faulty variant: before t1 the start is taken on the same day
same_day_start(now_jkt, t1, t2, t3, before, last) ==
    IF datetime_lt(now_jkt, combine(t1, now_jkt)) THEN
        IF before = None THEN Ok(None) ELSE Ok(combine(before, now_jkt))
    ELSE IF datetime_lt(now_jkt, combine(t2, now_jkt)) THEN Ok(combine(t1, now_jkt))
    ELSE IF datetime_lt(now_jkt, combine(t3, now_jkt)) THEN Ok(combine(t2, now_jkt))
    ELSE Ok(combine(last, now_jkt))

\* lines 40-47, 50-57 and 60-67: the start of the window now_jkt is in, where
\* before is the start taken before t1 (the night shift of the day before,
\* or nothing) and last the start taken from t3 on
window_start(now_jkt, t1, t2, t3, before, last) ==
    IF datetime_lt(now_jkt, combine(t1, now_jkt)) THEN
        IF before = None THEN Ok(None)
        ELSE LET yesterday == plus_days(now_jkt, -1)
             IN  IF yesterday.raised # "none" THEN yesterday
                 ELSE Ok(combine(before, yesterday.value))
    ELSE IF datetime_lt(now_jkt, combine(t2, now_jkt)) THEN Ok(combine(t1, now_jkt))
    ELSE IF datetime_lt(now_jkt, combine(t3, now_jkt)) THEN Ok(combine(t2, now_jkt))
    ELSE Ok(combine(last, now_jkt))

\* faulty variant: Sunday follows the table of Monday to Thursday
sunday_as_weekday(now_jkt) ==
    IF weekday(now_jkt) \in { 0, 1, 2, 3, 6 }
    THEN window_start(now_jkt, time(6, 30), time(14, 30), time(22, 30),
                      time(22, 30), time(22, 30))
    ELSE IF weekday(now_jkt) = 4
    THEN window_start(now_jkt, time(6, 30), time(15, 0), time(23, 0),
                      time(22, 30), time(22, 30))
    ELSE IF weekday(now_jkt) = 5
    THEN window_start(now_jkt, time(6, 30), time(11, 30), time(16, 30),
                      None, time(16, 30))
    ELSE Ok(None)

\* lines 28-69: start_dt

shift_start(now_jkt) ==
    IF weekday(now_jkt) \in { 0, 1, 2, 3 }
    THEN window_start(now_jkt, time(6, 30), time(14, 30), time(22, 30),
                      time(22, 30), time(22, 30))
    ELSE IF weekday(now_jkt) = 4
    THEN window_start(now_jkt, time(6, 30), time(15, 0), time(23, 0),
                      time(22, 30), time(22, 30))
    ELSE IF weekday(now_jkt) = 5
    THEN window_start(now_jkt, time(6, 30), time(11, 30), time(16, 30),
                      None, time(16, 30))
    ELSE Ok(None)

\* lines 19-71
get_jakarta_shift_business_date(now, clock) ==
    LET now_jkt == _dt_in_jakarta(now, clock)
    IN  IF now_jkt.raised # "none" THEN now_jkt
        ELSE LET start_dt == shift_start(now_jkt.value)
             IN  IF start_dt.raised # "none" THEN start_dt
                 ELSE IF start_dt.value = None THEN Ok(date(now_jkt.value))
                 ELSE Ok(date(start_dt.value))

\* the dates of the instants: a week from Monday 2024-12-02 to Sunday
\* 2024-12-08, a Monday after a year's end and a Friday after a leap day
ShiftDates ==
    { << 2024, 12, 2 >>, << 2024, 12, 3 >>, << 2024, 12, 4 >>, << 2024, 12, 5 >>,
      << 2024, 12, 6 >>, << 2024, 12, 7 >>, << 2024, 12, 8 >>,
      << 2024, 1, 1 >>, << 2024, 3, 1 >> }

\* the dates of the instants passed as an argument: those, and a Monday
\* under the +07:30 offset of 1950
ArgumentDates == ShiftDates \cup { << 1950, 6, 5 >> }

\* the times of day of the instants: the shift boundaries and their neighbours
ShiftTimes ==
    { << 0, 0, 0, 0 >>, << 6, 29, 59, 0 >>, << 6, 29, 59, 999999 >>, << 6, 30, 0, 0 >>,
      << 8, 30, 0, 0 >>, << 11, 30, 0, 0 >>, << 14, 29, 59, 0 >>, << 14, 30, 0, 0 >>, << 15, 0, 0, 0 >>,
      << 16, 30, 0, 0 >>, << 21, 30, 0, 0 >>, << 22, 29, 59, 0 >>, << 22, 30, 0, 0 >>,
      << 22, 45, 0, 0 >>, << 23, 0, 0, 0 >>, << 23, 30, 0, 0 >>, << 23, 59, 59, 999999 >> }

\* tzinfo of the instants: naive, Asia/Jakarta, UTC, +09:00 and -05:00
ShiftZones ==
    { None, JAKARTA_TZ, timezone_utc, << "timezone", 32400, 0 >>, << "timezone", -18000, 0 >> }

ShiftInputs == { d \o t \o << z >> : d \in ArgumentDates, t \in ShiftTimes, z \in ShiftZones }

\* what datetime.now(tz=JAKARTA_TZ) returns: a present-day time of the
\* clock, with Asia/Jakarta as its tzinfo
ClockInputs == { d \o t \o << JAKARTA_TZ >> : d \in ShiftDates, t \in ShiftTimes }


(***************************************************************************)
(* app/core/database.py: get_session, one record per task of the event     *)
(* loop                                                                    *)
(***************************************************************************)
\* the session objects that exist beside those of task r: the sessions of
\* the tasks inside their block and those a close task still runs on
sessions_alive(r) == { req[q].session : q \in Requests \ { r } } \ { 0 }

\* faulty variant: one session object shared by all calls
shared_session(alive) == 1

\* line 106, session_factory(): every call builds a new AsyncSession, an
\* object other than every object that exists; the objects are numbered and
\* the new one gets the least number that no object alive has

new_session(alive) ==
    CHOOSE s \in Requests : s \notin alive /\ \A t \in 1..(s - 1) : t \in alive

\* lines 106-110: where the generator goes when the caller's block is left
\* by "return", "error" or "cancel"
after_body(exit) == "inner_close"

\* faulty variant: the synchronous function is called on the event loop
direct_call == "loop"

\* downtime.py 144, mttr_mtbf.py 142: asyncio.to_thread runs the callable
\* on a worker thread

blocking_call_runs_on == "thread"

InFlight == { "queued", "connected" }

\* the event loop thread is not inside a blocking call
LoopFree == \A q \in Requests : ~(worker[q].state \in InFlight /\ worker[q].on = "loop")

OutcomeOf(exit) == CASE exit = "return" -> "returned"
                     [] exit = "error"  -> "raised"
                     [] exit = "cancel" -> "cancelled"

\* the exception, or the return, leaves get_session
Finish(rec) == [ rec EXCEPT !.pc = "done", !.outcome = OutcomeOf(rec.exit),
                            !.session = IF rec.closing THEN rec.session ELSE 0 ]

LeaveBody(rec, exit) ==
    LET gone == [ rec EXCEPT !.exit = exit ]
    IN  IF after_body(exit) = "done" THEN Finish(gone)
        ELSE [ gone EXCEPT !.pc = after_body(exit) ]

\* the connections the session of rec has checked out of its pool: the one
\* its statement ran on, until a close has released it
checked_out(rec) == IF rec.conn = "out" THEN 1 ELSE 0

\* AsyncSession.close() of SQLAlchemy, called at lines 106 and 110, by its
\* documented contract: the session releases the connections it has checked
\* out, so that it holds none afterwards.  The library is not part of the
\* repository; the session after the call
Closed(rec) == [ rec EXCEPT !.conn = IF @ = "out" THEN "returned" ELSE @ ]

\* and the pool after the call
Returned(rec, alias) == [ borrowed EXCEPT ![alias] = @ - checked_out(rec) ]

bootVars == << boot, bootError, oracle, todo >>
taskFrame == << configVars, bootVars, engineVars, discovered, lastResolve, added >>
otherVars == << taskFrame, dateCall, apiCall >>

\* lines 100-106 in a coroutine of the services or of the API: the task r is
\* inside "async with get_session(db_alias) as session", before its query;
\* res is session_alias(db_alias)
in_block(r, kind, db_alias, res) ==
    [ IdleRequest EXCEPT !.kind = kind, !.db = db_alias, !.alias = res.alias,
                         !.pc = "body", !.session = new_session(sessions_alive(r)) ]

M_test_failed == "connection test failed"

\* what the get_session block of a task has come to, for the coroutine that
\* awaited in it
left(rec) ==
    CASE rec.outcome = "returned" -> Ok(rec.result)
      [] rec.outcome = "cancelled" -> Raise("CancelledError", "")
      [] rec.outcome = "raised" /\ rec.error = "TestFailed" -> Raise("HTTP 503", M_test_failed)
      [] rec.outcome = "raised" /\ rec.error # "TestFailed" ->
            Raise("SQLAlchemyError", M_query_failed)

\* the get_session block of a waiting coroutine has come to "block": the
\* coroutine goes on from its await with the bounds and the other arguments it
\* holds in its frame and runs to its end
date_call_resumed(fn, frame, block) ==
    CASE fn \in { "fetch_rtf_data_by_pid_and_range", "fetch_banb_data_by_pid_and_range" } ->
            _fetch_rtf_data(frame[3], frame[4], frame[1], frame[2], block)
      [] fn = "get_banb_data_by_range" ->
            range_response(_fetch_rtf_data(frame[3], frame[4], frame[1], frame[2], block))
      [] fn = "get_chiller_status_history_by_range" ->
            endpoint_error(fetch_chiller_status_history_by_range(frame[3], frame[1],
                                                                 frame[2], block))
      [] fn = "get_banbury_anomaly_results" ->
            endpoint_error(fetch_banbury_anomaly_results(frame[3], frame[1], frame[2],
                                                         block))

(***************************************************************************)
(* app/api/v1/health.py: the probes                                        *)
(***************************************************************************)
NoApiCall == [ fn |-> "none", args |-> << >>, out |-> [ status_code |-> 0 ] ]

\* status_code of a call that waits in a get_session block, and of a call
\* whose task was cancelled: no response is sent yet, or at all
Waiting == 0
NoResponse == -1

ProbeEntry(alias, status, test_query, error) ==
    [ alias |-> alias, error |-> error, status |-> status, test_query |-> test_query ]

ProbeResponse(status_code, status, message, results, queries) ==
    [ status_code |-> status_code, status |-> status, message |-> message,
      queries |-> queries, databases |-> results ]

\* lines 21-34: results[db_alias] once the block of db_alias is left
probe_entry(db_alias, block) ==
    IF block.raised = "none"
    THEN ProbeEntry(db_alias, "connected",
                    IF block.value = "one" THEN "success" ELSE "failed", "")
    ELSE ProbeEntry(db_alias, "error", "", block.msg)

\* the get_session block of the alias at position i when the loop comes to
\* it; sessions[a] is session_alias(a) in the state of the step
entering(aliases, i, sessions) ==
    IF i <= Len(aliases) THEN opening(sessions[aliases[i]]) ELSE Suspended

\* faulty variant: the loop ends at the first alias that fails
RECURSIVE fail_fast(_, _, _, _, _, _)
fail_fast(aliases, i, results, queries, block, sessions) ==
    IF i > Len(aliases) \/ \E j \in DOMAIN results : results[j].status # "connected"
    THEN IF \A j \in DOMAIN results : results[j].status = "connected"
         THEN ProbeResponse(200, "all_connected", "", results, queries)
         ELSE ProbeResponse(503, "", "Some database connections failed", results, queries)
    ELSE IF block.raised = "pending"
    THEN ProbeResponse(Waiting, "", "", results, Append(queries, aliases[i]))
    ELSE IF block.raised = "CancelledError"
    THEN ProbeResponse(NoResponse, "", "", results, Append(queries, aliases[i]))
    ELSE fail_fast(aliases, i + 1, Append(results, probe_entry(aliases[i], block)),
                   IF block.raised = "ValueError" THEN queries
                   ELSE Append(queries, aliases[i]),
                   entering(aliases, i + 1, sessions), sessions)

\* lines 15-54, GET /health/db, from the alias at position i of the list the
\* loop iterates: results and queries are what the iterations before it left,
\* block is what the get_session block of that alias has come to.  queries
\* are the aliases session.execute was called on: get_session raises its
\* ValueError before the block is entered
RECURSIVE test_database_connections(_, _, _, _, _, _)
test_database_connections(aliases, i, results, queries, block, sessions) ==
    IF i > Len(aliases)
    THEN IF \A j \in DOMAIN results : results[j].status = "connected"
         THEN ProbeResponse(200, "all_connected", "", results, queries)
         ELSE ProbeResponse(503, "", "Some database connections failed", results, queries)
    ELSE IF block.raised = "pending"
    THEN ProbeResponse(Waiting, "", "", results, Append(queries, aliases[i]))
    ELSE IF block.raised = "CancelledError"
    THEN ProbeResponse(NoResponse, "", "", results, Append(queries, aliases[i]))
    ELSE test_database_connections(aliases, i + 1,
                                   Append(results, probe_entry(aliases[i], block)),
                                   IF block.raised = "ValueError" THEN queries
                                   ELSE Append(queries, aliases[i]),
                                   entering(aliases, i + 1, sessions), sessions)

\* lines 57-95, GET /health/db/{db_alias}
test_database_connection(db_alias, block) ==
    IF block.raised = "pending"
    THEN ProbeResponse(Waiting, "", "", << >>, << db_alias >>)
    ELSE IF block.raised = "CancelledError"
    THEN ProbeResponse(NoResponse, "", "", << >>, << db_alias >>)
    ELSE IF block.raised = "none"
    THEN ProbeResponse(200, "connected", "", << probe_entry(db_alias, block) >>, << db_alias >>)
    ELSE IF block.raised = "HTTP 503"
    THEN ProbeResponse(503, "", block.msg, << >>, << db_alias >>)
    ELSE ProbeResponse(503, "error", "", << probe_entry(db_alias, block) >>,
                       IF block.raised = "ValueError" THEN << >> ELSE << db_alias >>)

\* lines 9-12, GET /health
readiness_probe == ProbeResponse(200, "ready", "", << >>, << >>)

(***************************************************************************)
(* app/api/v1/banb_data.py, ip_data.py, ctm_data.py: the HMI routers       *)
(***************************************************************************)
HmiRouters == { "banb-data", "ip-data", "ctm-data" }

\* line 19 of each router, evaluated when the router is imported: the keys of
\* SESSION_FACTORIES, which no later statement changes
ALL_DATABASES == available_databases

\* line 20 of each router: the aliases the router offers
AVAILABLE_DATABASES(router) ==
    SelectSeq(ALL_DATABASES,
              LAMBDA db : CASE router = "banb-data" -> startswith(db, S_banb)
                            [] router = "ip-data" -> startswith(db, S_ip) /\ db # S_montrg
                            [] router = "ctm-data" -> startswith(db, S_ctm))

HmiResponse(status_code, target, error, fetched) ==
    [ error |-> error, status_code |-> status_code, fetched |-> fetched, target |-> target ]

\* api/v1/banb_data.py lines 24-50 with services/banb_data.py lines 13-20
\* and 92-130, GET /<router>?pid=..&db=.., from the pid at position i of the
\* pids: target is the alias the queries before it were sent to, block is
\* what the get_session block of that pid's query has come to.  No handler
\* of the endpoint catches what the service raises
RECURSIVE get_data_by_pids(_, _, _, _, _, _, _)
get_data_by_pids(router, db, pids, i, target, block, session) ==
    IF truthy(db) /\ db \notin Range(AVAILABLE_DATABASES(router))
    THEN HmiResponse(400, None, "UnknownAlias", 0)
    ELSE IF i > pids THEN HmiResponse(200, target, NoError, pids)
    ELSE IF block.raised = "pending"
    THEN HmiResponse(Waiting, session.alias, NoError, i - 1)
    ELSE IF block.raised = "CancelledError"
    THEN HmiResponse(NoResponse, target, "CancelledError", i - 1)
    ELSE IF block.raised # "none"
    THEN HmiResponse(500, target, block.raised, i - 1)
    ELSE get_data_by_pids(router, db, pids, i + 1, target, opening(session), session)

S_banb01 == << "b","a","n","b","0","1" >>
S_ctm01 == << "c","t","m","0","1" >>

\* the db parameter of a request: absent, or a string of the query's pattern
DbInputs == { None, S_ip04, S_banb01, S_ctm01, S_montrg, S_cmms, S_nope }

\* how many pids a request names (min_length=1)
PidCounts == { 1, 2 }

\* the coroutine of the API that was called with these arguments, its
\* get_session block having come to "block"; sessions[a] is session_alias(a)
\* in the state of the step
api_call(call, block, sessions) ==
    CASE call.fn = "test_database_connections" ->
            test_database_connections(call.args[1], Len(call.out.databases) + 1,
                                      call.out.databases,
                                      SubSeq(call.out.queries, 1, Len(call.out.queries) - 1),
                                      block, sessions)
      [] call.fn = "test_database_connection" ->
            test_database_connection(call.args[1], block)
      [] call.fn = "get_data_by_pids" ->
            get_data_by_pids(call.args[1], call.args[2], call.args[3],
                             call.out.fetched + 1, call.out.target, block,
                             sessions[call.args[2]])

\* the aliases a call of the API calls get_session with
opened_by(call) ==
    IF call.fn = "test_database_connections" THEN Range(call.args[1])
    ELSE IF call.fn = "test_database_connection" THEN { call.args[1] }
    ELSE { call.args[2] }

\* the db_alias of the get_session block a waiting call of the API is in
waits_on(fn, args, out) ==
    CASE fn = "test_database_connections" -> out.queries[Len(out.queries)]
      [] fn = "test_database_connection" -> args[1]
      [] fn = "get_data_by_pids" -> args[2]

(***************************************************************************)
(* The tasks of the event loop                                             *)
(***************************************************************************)
\* the coroutine of the services that awaited in the block of task r gets
\* what the block has come to and runs to its end
DateAnswers(r, rec, out) ==
    /\ req' = [ req EXCEPT ![r] = rec ]
    /\ dateCall' = [ dateCall EXCEPT !.out = out ]
    /\ apiCall' = apiCall

\* the coroutine of the API that awaited in the block of task r gets what the
\* block has come to and runs to its end, or into the block of its next query
ApiAnswers(r, rec, out, sessions) ==
    /\ req' = [ req EXCEPT ![r] =
            IF out.status_code = Waiting
            THEN in_block(r, "api", waits_on(apiCall.fn, apiCall.args, out),
                          sessions[waits_on(apiCall.fn, apiCall.args, out)])
            ELSE rec ]
    /\ apiCall' = [ apiCall EXCEPT !.out = out ]
    /\ dateCall' = dateCall

\* the task r goes on as rec; a task that has left get_session resumes the
\* coroutine that called it, in the same step of the event loop
Resumes(r, next) ==
    \E rec \in { next } :
    \E block \in { IF rec.pc = "done" THEN left(rec) ELSE Suspended } :
        IF rec.pc = "done" /\ rec.kind = "date"
        THEN DateAnswers(r, rec, date_call_resumed(dateCall.fn, dateCall.out.value, block))
        ELSE IF rec.pc = "done" /\ rec.kind = "api"
        THEN \E sessions \in { [ a \in opened_by(apiCall) |-> session_alias(a) ] } :
                ApiAnswers(r, rec, api_call(apiCall, block, sessions), sessions)
        ELSE req' = [ req EXCEPT ![r] = rec ] /\ UNCHANGED << dateCall, apiCall >>

\* lines 100-106: "async with get_session(db) as session" up to the yield,
\* for a db_alias argument of inputs
GetSessionOn(r, inputs) ==
    /\ boot = "running"
    /\ LoopFree
    /\ req[r].pc = "idle"
    /\ \E db \in inputs :
        LET res == session_alias(db)
            called == [ req[r] EXCEPT !.kind = "session", !.db = db, !.alias = res.alias ]
        IN  req' = [ req EXCEPT ![r] =
                IF ~res.ok
                THEN [ called EXCEPT !.pc = "done", !.outcome = "raised", !.error = res.error ]
                ELSE [ called EXCEPT !.pc = "body",
                                    !.session = new_session(sessions_alive(r)) ] ]
    /\ UNCHANGED << worker, borrowed, otherVars >>

GetSession(r) == GetSessionOn(r, SessionInputs)

\* the caller's query takes a connection from the pool of the alias
Checkout(r) ==
    /\ LoopFree
    /\ req[r].pc = "body"
    /\ req[r].conn = "none"
    /\ req' = [ req EXCEPT ![r].conn = "out" ]
    /\ borrowed' = [ borrowed EXCEPT ![req[r].alias] = @ + 1 ]
    /\ UNCHANGED << worker, otherVars >>

\* what the statement of task r can answer: the scalar of "SELECT 1" or
\* another one for the probes, rows for every other caller
QueryAnswerSet(r) ==
    IF req[r].kind = "api"
       /\ apiCall.fn \in { "test_database_connections", "test_database_connection" }
    THEN { "one", "other" }
    ELSE { "rows" }

\* the block of task r after its statement answered res: health.py lines
\* 72-84 raise an HTTPException inside the block when the scalar is not 1,
\* every other block returns
answered(r, res) ==
    IF req[r].kind = "api" /\ apiCall.fn = "test_database_connection" /\ res # "one"
    THEN LeaveBody([ req[r] EXCEPT !.error = "TestFailed" ], "error")
    ELSE LeaveBody([ req[r] EXCEPT !.result = res ], "return")

\* the query answers and the caller's block is left
QueryDone(r) ==
    /\ LoopFree
    /\ req[r].pc = "body"
    /\ req[r].conn = "out"
    /\ \E res \in QueryAnswerSet(r) : Resumes(r, answered(r, res))
    /\ UNCHANGED << worker, borrowed, taskFrame >>

\* an error is raised inside the caller's block
QueryError(r) ==
    /\ LoopFree
    /\ req[r].pc = "body"
    /\ Resumes(r, LeaveBody([ req[r] EXCEPT !.error = "QueryFailed" ], "error"))
    /\ UNCHANGED << worker, borrowed, taskFrame >>

\* the task is cancelled while it waits inside the block
CancelBody(r) ==
    /\ LoopFree
    /\ req[r].pc = "body"
    /\ Resumes(r, LeaveBody([ req[r] EXCEPT !.cancelled = TRUE ], "cancel"))
    /\ UNCHANGED << worker, borrowed, taskFrame >>

\* lines 109-110: finally: await session.close()
InnerClose(r) ==
    /\ LoopFree
    /\ req[r].pc = "inner_close"
    /\ req' = [ req EXCEPT ![r] = [ Closed(req[r]) EXCEPT !.pc = "aexit_close" ] ]
    /\ borrowed' = Returned(req[r], req[r].alias)
    /\ UNCHANGED << worker, otherVars >>

\* the task is cancelled, for the first time or once more, while it awaits
\* session.close() at line 110: the close is interrupted, with the
\* connection returned or not, and the CancelledError replaces the block's
\* result or error
CancelInnerClose(r) ==
    /\ LoopFree
    /\ req[r].pc = "inner_close"
    /\ \E done \in BOOLEAN :
        /\ req' = [ req EXCEPT ![r] =
                [ (IF done THEN Closed(req[r]) ELSE req[r])
                  EXCEPT !.pc = "aexit_close", !.exit = "cancel", !.cancelled = TRUE,
                         !.result = "none", !.error = NoError ] ]
        /\ borrowed' = IF done THEN Returned(req[r], req[r].alias) ELSE borrowed
    /\ UNCHANGED << worker, otherVars >>

\* line 106, leaving "async with session_factory()": AsyncSession.__aexit__
\* awaits a shielded close
AExitClose(r) ==
    /\ LoopFree
    /\ req[r].pc = "aexit_close"
    /\ Resumes(r, Finish(Closed(req[r])))
    /\ borrowed' = Returned(req[r], req[r].alias)
    /\ UNCHANGED << worker, taskFrame >>

\* the task is cancelled, for the first time or once more, while it awaits
\* the shielded close: the CancelledError leaves get_session at once and the
\* close task runs on
CancelAExit(r) ==
    /\ LoopFree
    /\ req[r].pc = "aexit_close"
    /\ Resumes(r, Finish([ req[r] EXCEPT !.exit = "cancel", !.cancelled = TRUE,
                                         !.closing = TRUE, !.result = "none",
                                         !.error = NoError ]))
    /\ UNCHANGED << worker, borrowed, taskFrame >>

\* the shielded close task completes
ShieldedCloseDone(r) ==
    /\ LoopFree
    /\ req[r].closing
    /\ req' = [ req EXCEPT ![r] = [ Closed(req[r]) EXCEPT !.closing = FALSE, !.session = 0 ] ]
    /\ borrowed' = Returned(req[r], req[r].alias)
    /\ UNCHANGED << worker, otherVars >>

\* the steps of a task inside get_session
SessionSteps(r) ==
    \/ Checkout(r) \/ QueryDone(r) \/ QueryError(r) \/ CancelBody(r)
    \/ InnerClose(r) \/ CancelInnerClose(r) \/ AExitClose(r) \/ CancelAExit(r)
    \/ ShieldedCloseDone(r)

(***************************************************************************)
(* app/core/database.py: init_db                                           *)
(***************************************************************************)
\* the engine init_db turns to after the engine of alias, None after the last
next_engine(alias) ==
    LET i == CHOOSE j \in DOMAIN ASYNC_ENGINES : ASYNC_ENGINES[j] = alias
    IN  IF i < Len(ASYNC_ENGINES) THEN ASYNC_ENGINES[i + 1] ELSE None

\* lines 113-115: init_db() is called and comes to "async with engine.begin()"
\* of the first asynchronous engine
InitDb(r) ==
    /\ boot = "running"
    /\ LoopFree
    /\ req[r].pc = "idle"
    /\ req' = [ req EXCEPT ![r] =
            IF Len(ASYNC_ENGINES) = 0
            THEN [ @ EXCEPT !.kind = "init_db", !.pc = "done", !.outcome = "returned" ]
            ELSE [ @ EXCEPT !.kind = "init_db", !.pc = "begin", !.alias = ASYNC_ENGINES[1] ] ]
    /\ UNCHANGED << worker, borrowed, otherVars >>

\* line 116, engine.begin(): a connection of the engine's pool is taken and
\* the transaction begins
InitDbBegin(r) ==
    /\ LoopFree
    /\ req[r].pc = "begin"
    /\ req' = [ req EXCEPT ![r] = [ @ EXCEPT !.pc = "create_all", !.conn = "out" ] ]
    /\ borrowed' = [ borrowed EXCEPT ![req[r].alias] = @ + 1 ]
    /\ UNCHANGED << worker, otherVars >>

\* line 117 and the end of the block: run_sync(create_all) returns, the
\* transaction commits, the connection goes back, and the loop turns to the
\* next engine
InitDbCreateAll(r) ==
    /\ LoopFree
    /\ req[r].pc = "create_all"
    /\ req' = [ req EXCEPT ![r] =
            IF next_engine(req[r].alias) = None
            THEN [ @ EXCEPT !.pc = "done", !.outcome = "returned", !.conn = "returned",
                            !.alias = None ]
            ELSE [ @ EXCEPT !.pc = "begin", !.conn = "none",
                            !.alias = next_engine(req[r].alias) ] ]
    /\ borrowed' = [ borrowed EXCEPT ![req[r].alias] = @ - 1 ]
    /\ UNCHANGED << worker, otherVars >>

\* the connection attempt or create_all fails, or the task is cancelled: the
\* block rolls back, gives its connection back, and init_db is left
InitDbLeaves(r, exit) ==
    /\ LoopFree
    /\ req[r].pc \in { "begin", "create_all" }
    /\ req' = [ req EXCEPT ![r] =
            [ Closed(req[r]) EXCEPT !.pc = "done", !.outcome = OutcomeOf(exit),
                                    !.exit = exit, !.cancelled = (exit = "cancel"),
                                    !.error = IF exit = "error" THEN "QueryFailed"
                                              ELSE NoError,
                                    !.alias = None ] ]
    /\ borrowed' = Returned(req[r], req[r].alias)
    /\ UNCHANGED << worker, otherVars >>

InitDbError(r) == InitDbLeaves(r, "error")
InitDbCancel(r) == InitDbLeaves(r, "cancel")

(***************************************************************************)
(* app/services/downtime.py, app/services/mttr_mtbf.py: the CMMS path      *)
(***************************************************************************)
\* the process codes: 'os', a key of process_mapping once in upper case,
\* and 'xx', which is none
S_os == << "o","s" >>
S_OS == << "O","S" >>
S_PH == << "P","H" >>
S_xx == << "x","x" >>

\* the process argument of a call: left out, a process code, an unknown code
ProcessInputs == { None, S_os, S_xx }

\* downtime.py 26-31, mttr_mtbf.py 25-30: the keys of process_mapping
ProcessCodes == { S_OS, S_IP, S_PH }

\* downtime.py 24-34, mttr_mtbf.py 23-33: a process is given and its upper
\* case is no key of process_mapping, so the call returns [] at once
unknown_process(process) == truthy(process) /\ upper(process) \notin ProcessCodes

\* what the call returns to its request; every other result is an exception
ReturnedResults == { "rows", "no_rows" }

\* downtime.py 136-151, mttr_mtbf.py 134-146, fetch_downtime /
\* fetch_mttr_mtbf: await asyncio.to_thread(_fetch_*_sync, ...) hands the
\* call to the executor and suspends the request
FetchBlocking(r) ==
    /\ boot = "running"
    /\ LoopFree
    /\ req[r].pc = "idle"
    /\ req' = [ req EXCEPT ![r] = [ @ EXCEPT !.kind = "cmms", !.pc = "awaiting_thread",
                                             !.db = S_cmms ] ]
    /\ \E process \in ProcessInputs :
        worker' = [ worker EXCEPT ![r] = [ result |-> "none", state |-> "queued",
                                           on |-> blocking_call_runs_on,
                                           process |-> process ] ]
    /\ UNCHANGED << borrowed, otherVars >>

\* the worker's call has ended with result, outside "with engine.connect()"
ended(r, result) ==
    [ worker EXCEPT ![r].state = "finished", ![r].result = result, ![r].process = None ]

\* downtime.py 24-114, mttr_mtbf.py 23-105, _fetch_*_sync up to the
\* connection: the call returns [] for an unknown process; else it builds
\* its statement and asks get_sync_engine("cmms") for the engine, e, which
\* raises when there is none; engine.connect() then takes a connection of
\* the pool, or raises
before_query(process, e, connects) ==
    IF unknown_process(process) THEN "no_rows"
    ELSE IF ~e.ok THEN e.error
    ELSE IF ~connects THEN "ConnectFailed"
    ELSE "connected"

\* a worker thread of the executor runs the call up to its query
WorkerConnect(r) ==
    /\ worker[r].state = "queued"
    /\ \E connects \in BOOLEAN :
        LET e == get_sync_engine(S_cmms)
            reached == before_query(worker[r].process, e, connects)
        IN  IF reached = "connected"
            THEN /\ worker' = [ worker EXCEPT ![r].state = "connected",
                                                ![r].process = None ]
                 /\ borrowed' = [ borrowed EXCEPT ![e.alias] = @ + 1 ]
            ELSE worker' = ended(r, reached) /\ borrowed' = borrowed
    /\ UNCHANGED << req, otherVars >>

\* faulty variant: the query is given up when the awaiting request is cancelled
query_dropped_on_cancel(r) ==
    /\ worker[r].state = "connected"
    /\ ~req[r].cancelled
    /\ \E res \in QueryResults :
        /\ worker' = ended(r, res)
        /\ borrowed' = [ borrowed EXCEPT ![S_cmms] = @ - 1 ]
    /\ UNCHANGED << req, otherVars >>

\* downtime.py 115-131, mttr_mtbf.py 106-132: conn.execute and fetchall
\* answer with rows, with none, or raise; "with engine.connect()" is left,
\* which gives the connection back, and the rows are made into records

WorkerQuery(r) ==
    /\ worker[r].state = "connected"
    /\ \E res \in QueryResults :
        /\ worker' = ended(r, res)
        /\ borrowed' = [ borrowed EXCEPT ![S_cmms] = @ - 1 ]
    /\ UNCHANGED << req, otherVars >>

\* the awaiting request gets the worker's result or its error
Resume(r) ==
    /\ LoopFree
    /\ req[r].pc = "awaiting_thread"
    /\ worker[r].state = "finished"
    /\ req' = [ req EXCEPT ![r] =
            IF worker[r].result \in ReturnedResults
            THEN [ @ EXCEPT !.pc = "done", !.outcome = "returned", !.result = worker[r].result ]
            ELSE [ @ EXCEPT !.pc = "done", !.outcome = "raised", !.error = worker[r].result ] ]
    /\ UNCHANGED << worker, borrowed, otherVars >>

\* the awaiting request is cancelled.  A call that a worker thread has
\* begun is not stopped; a call still in the executor's queue is taken out
\* of it when its future can still be cancelled, and runs otherwise
CancelAwaiting(r) ==
    /\ LoopFree
    /\ req[r].pc = "awaiting_thread"
    /\ worker[r].on = "thread"
    /\ req' = [ req EXCEPT ![r] = [ @ EXCEPT !.pc = "done", !.outcome = "cancelled",
                                             !.cancelled = TRUE ] ]
    /\ \E started \in BOOLEAN :
        worker' = IF worker[r].state = "queued" /\ ~started
                  THEN [ worker EXCEPT ![r].state = "dropped", ![r].process = None ]
                  ELSE worker
    /\ UNCHANGED << borrowed, otherVars >>

Init == InitWith(MainEnvironments)

Boot == OracleInit \/ OracleSkip \/ CheckUrls \/ ProvisionNext \/ BuildFactories

InitDbSteps(r) ==
    \/ InitDb(r) \/ InitDbBegin(r) \/ InitDbCreateAll(r) \/ InitDbError(r)
    \/ InitDbCancel(r)

\* the tasks that use the asynchronous pools: get_session blocks and init_db
Next ==
    \/ Boot
    \/ \E r \in Requests : GetSession(r) \/ SessionSteps(r) \/ InitDbSteps(r)

Spec == Init /\ [][Next]_vars

\* the db_alias arguments of the get_session blocks that run beside the
\* blocking calls: the default alias and the alias of the CMMS
BesideInputs == { None, S_cmms }

GetSessionBeside(r) == GetSessionOn(r, BesideInputs)

BlockingSteps(r) ==
    \/ FetchBlocking(r) \/ WorkerConnect(r) \/ WorkerQuery(r) \/ Resume(r)
    \/ CancelAwaiting(r)

\* the blocking CMMS calls, and get_session blocks on the event loop beside
\* them.  init_db reads and writes neither the workers nor the synchronous
\* pool and is left to Spec
CmmsNext ==
    \/ Boot
    \/ \E r \in Requests : BlockingSteps(r) \/ GetSessionBeside(r) \/ SessionSteps(r)

CmmsSpec == Init /\ [][CmmsNext]_vars

\* the callable of asyncio.to_thread runs on an executor thread, which no
\* cancellation of the awaiting task stops: a query that has started answers
\* or fails.  A call still queued when its request is cancelled may never
\* start, so nothing is assumed of WorkerConnect.
QueryAnswers == \E r \in Requests : WorkerQuery(r)
WorkerFairness == WF_vars(QueryAnswers)

LiveSpec == Init /\ [][CmmsNext]_vars /\ WorkerFairness


(***************************************************************************)
(* Calls of the date resolvers and of the coroutines that query a range    *)
(***************************************************************************)
\* one call: the name of the function, its arguments and what it comes to
Call(fn, args, out) == [ fn |-> fn, args |-> args, out |-> out ]

\* one call of a synchronous function is made and recorded
ResolvedCall(calls) ==
    /\ dateCall.fn = "none"
    /\ \E call \in calls : dateCall' = call
    /\ UNCHANGED << taskFrame, requestVars, apiCall >>

\* a synchronous function of a module that imports app.core.database
ImportedCall(calls) == boot = "running" /\ ResolvedCall(calls)

\* what entering "async with get_session(db_alias)" can come to
BlockStarts == { Suspended, Raise("ValueError", M_unknown_alias),
                 Raise("ValueError", M_no_async_session) }

\* a coroutine is called on the idle task r and runs up to its first await,
\* inside the get_session block on db_alias, or to the exception raised
\* before it; call.out[block] is what the coroutine comes to when entering
\* the block comes to "block"
CallStarts(r, db_alias, calls) ==
    /\ boot = "running"
    /\ LoopFree
    /\ req[r].pc = "idle"
    /\ dateCall.fn = "none"
    /\ \E call \in calls, res \in { session_alias(db_alias) } :
        \E out \in { call.out[opening(res)] } :
            /\ dateCall' = Call(call.fn, call.args, out)
            /\ req' = [ req EXCEPT ![r] =
                    IF out.raised = "pending" THEN in_block(r, "date", db_alias, res)
                    ELSE @ ]
    /\ UNCHANGED << worker, borrowed, taskFrame, apiCall >>

\* the calls of _resolve_date_key(date_key)
ResolveDateKeyCalls ==
    { Call("_resolve_date_key", << k >>, _resolve_date_key(k)) : k \in DateKeyInputs }

ResolveDateKey == ImportedCall(ResolveDateKeyCalls)

\* pid and limit of the range queries: the endpoints take a limit from 1 to
\* 5000
PidInputs == { 1, 2 }
LimitInputs == { 1, 2, 5000 }

\* the calls of fetch_rtf_data_by_pid_and_range and of
\* fetch_banb_data_by_pid_and_range
FetchByPidAndRangeCalls ==
    { Call(fn, << s, e, pid, limit >>,
           [ block \in BlockStarts |->
                fetch_rtf_data_by_pid_and_range(pid, limit, s, e, block) ]) :
        fn \in { "fetch_rtf_data_by_pid_and_range", "fetch_banb_data_by_pid_and_range" },
        s \in PairKeyInputs, e \in PairKeyInputs, pid \in PidInputs,
        limit \in LimitInputs }

FetchByPidAndRange(r) == CallStarts(r, None, FetchByPidAndRangeCalls)

\* the calls of _parse_date_string(date_str)
ParseDateStringCalls ==
    { Call("_parse_date_string", << k >>, _parse_date_string(k)) :
        k \in ChillerKeyInputs \ { None } }

ParseDateString == ImportedCall(ParseDateStringCalls)

\* the calls of resolve_date_range(start_key, end_key)
ResolveDateRangeCalls ==
    { Call("resolve_date_range", << s, e >>, resolve_date_range(s, e)) :
        s \in ChillerKeyInputs, e \in ChillerKeyInputs }

ResolveDateRange == ImportedCall(ResolveDateRangeCalls)

\* device_id of the requests: none, a number, a name
DeviceInputs == { None, << "4" >>, S_CKP001 }

\* the requests GET /chiller-status/history/range
GetChillerStatusHistoryByRangeCalls ==
    { Call("get_chiller_status_history_by_range", << s, e, device_id >>,
           [ block \in BlockStarts |->
                get_chiller_status_history_by_range(device_id, s, e, block) ]) :
        s \in ChillerKeyInputs, e \in ChillerKeyInputs, device_id \in DeviceInputs }

GetChillerStatusHistoryByRange(r) ==
    CallStarts(r, S_ckp_chiller, GetChillerStatusHistoryByRangeCalls)

\* the calls of _parse_cycle_start_date(date_str)
ParseCycleStartDateCalls ==
    { Call("_parse_cycle_start_date", << k >>, _parse_cycle_start_date(k)) :
        k \in CycleKeyInputs \ { None } }

ParseCycleStartDate == ImportedCall(ParseCycleStartDateCalls)

\* the calls of _resolve_cycle_start_range(start_key, end_key)
ResolveCycleStartRangeCalls ==
    { Call("_resolve_cycle_start_range", << s, e >>, _resolve_cycle_start_range(s, e)) :
        s \in CycleKeyInputs, e \in CycleKeyInputs }

ResolveCycleStartRange == ImportedCall(ResolveCycleStartRangeCalls)

\* start and end of the requests to the anomaly endpoint
EndpointKeyInputs ==
    { None, DK_2024, DK_2024_12_04, DK_2024_12_05, CY_minute, CY_iso_Z,
      DK_9999, CY_9999_12_31, DK_abcd, CY_1988_07_01, CY_iso_kst_us }

\* the requests GET /banbury-anomaly-detection
GetBanburyAnomalyResultsCalls ==
    { Call("get_banbury_anomaly_results", << s, e, today, filters >>,
           [ block \in BlockStarts |->
                get_banbury_anomaly_results(filters, today, s, e, block) ]) :
        filters \in FilterInputs, today \in TodayInputs,
        s \in EndpointKeyInputs, e \in EndpointKeyInputs }

GetBanburyAnomalyResults(r) == CallStarts(r, S_montrg, GetBanburyAnomalyResultsCalls)

\* the calls of get_jakarta_shift_business_date(now)
ShiftCalls ==
    { Call("get_jakarta_shift_business_date", << now, None >>,
           get_jakarta_shift_business_date(now, None)) : now \in ShiftInputs }

\* the calls of get_jakarta_shift_business_date(), which read the clock
ClockCalls ==
    { Call("get_jakarta_shift_business_date", << None, clock >>,
           get_jakarta_shift_business_date(None, clock)) : clock \in ClockInputs }

\* productivity_shift.py imports datetime and zoneinfo alone (lines 3-6): the
\* function is called whatever the import of app.core.database came to
GetJakartaShiftBusinessDate == ResolvedCall(ShiftCalls) \/ ResolvedCall(ClockCalls)

\* start_key and end_key of the requests to the range endpoint
RangeKeyInputs ==
    { None, S_empty, DK_2024, DK_202412, DK_20241205, DK_abcd, DK_202413,
      zfill(0, 4), DK_9999, zfill(999912, 6), zfill(99991231, 8), zfill(99981231, 8) }

\* the requests GET /banb-data/{pid}/range
GetBanbDataByRangeCalls ==
    { Call("get_banb_data_by_range", << s, e, pid, limit >>,
           [ block \in BlockStarts |-> get_banb_data_by_range(pid, s, e, limit, block) ]) :
        s \in RangeKeyInputs, e \in RangeKeyInputs, pid \in PidInputs,
        limit \in LimitInputs }

GetBanbDataByRange(r) == CallStarts(r, None, GetBanbDataByRangeCalls)

\* the environments of the calls: the chiller and montrg aliases with an HMI
\* alias and the synchronous cmms, an HMI alias alone, cmms alone
DateEnvironments ==
    { << << K_IP04, U_mysql >>, << K_CKP_CHILLER, U_pg >>, << K_MONTRG, U_pg >>,
         << K_CMMS, U_oracle >> >>,
      << << K_IP04, U_mysql >> >>,
      << << K_CMMS, U_oracle >> >> }

InitDate == InitWith(DateEnvironments)
NextDate ==
    \/ Boot
    \/ ResolveDateKey
    \/ ParseDateString
    \/ ResolveDateRange
    \/ ParseCycleStartDate
    \/ ResolveCycleStartRange
    \/ GetJakartaShiftBusinessDate
    \/ \E r \in Requests :
        \/ FetchByPidAndRange(r)
        \/ GetChillerStatusHistoryByRange(r)
        \/ GetBanburyAnomalyResults(r)
        \/ GetBanbDataByRange(r)
        \/ Checkout(r) \/ QueryDone(r) \/ QueryError(r) \/ CancelBody(r)
        \/ InnerClose(r) \/ CancelInnerClose(r) \/ AExitClose(r) \/ CancelAExit(r)
        \/ ShieldedCloseDone(r)
DateSpec == InitDate /\ [][NextDate]_vars

(***************************************************************************)
(* Calls of the API                                                        *)
(***************************************************************************)
\* a coroutine of the API is called on the idle task r and runs up to its
\* first await, or to its response; sessions[a] is session_alias(a)
ApiStarts(r, fn, args, sessions, out) ==
    /\ apiCall' = [ fn |-> fn, args |-> args, out |-> out ]
    /\ req' = [ req EXCEPT ![r] =
            IF out.status_code = Waiting
            THEN in_block(r, "api", waits_on(fn, args, out), sessions[waits_on(fn, args, out)])
            ELSE @ ]
    /\ UNCHANGED << worker, borrowed, taskFrame, dateCall >>

\* the task r is free for a request to the API
ApiIdle(r) ==
    /\ boot = "running"
    /\ LoopFree
    /\ req[r].pc = "idle"
    /\ apiCall.fn = "none"

\* GET /health/db; line 20 evaluates available_databases() once, for the loop
TestDatabaseConnections(r) ==
    /\ ApiIdle(r)
    /\ \E sessions \in { [ a \in Range(available_databases) |-> session_alias(a) ] } :
        ApiStarts(r, "test_database_connections", << available_databases >>, sessions,
                  test_database_connections(available_databases, 1, << >>, << >>,
                                            entering(available_databases, 1, sessions),
                                            sessions))

\* GET /health/db/{db_alias}
TestDatabaseConnection(r) ==
    /\ ApiIdle(r)
    /\ \E db_alias \in DbInputs \ { None } :
       \E sessions \in { [ a \in { db_alias } |-> session_alias(a) ] } :
        ApiStarts(r, "test_database_connection", << db_alias >>, sessions,
                  test_database_connection(db_alias, opening(sessions[db_alias])))

\* GET /health
ReadinessProbe ==
    /\ boot = "running"
    /\ apiCall.fn = "none"
    /\ apiCall' = [ fn |-> "readiness_probe", args |-> << >>, out |-> readiness_probe ]
    /\ UNCHANGED << taskFrame, requestVars, dateCall >>

\* GET /banb-data, /ip-data, /ctm-data
GetDataByPids(r) ==
    /\ ApiIdle(r)
    /\ \E router \in HmiRouters, db \in DbInputs, pids \in PidCounts :
       \E sessions \in { [ a \in { db } |-> session_alias(a) ] } :
        ApiStarts(r, "get_data_by_pids", << router, db, pids >>, sessions,
                  get_data_by_pids(router, db, pids, 1, None, opening(sessions[db]),
                                   sessions[db]))

\* the environments of the endpoint model: every family with montrg and the
\* synchronous cmms, a Banbury alias first, cmms alone, asynchronous only
ApiEnvironments ==
    { << << K_IP04, U_mysql >>, << K_Banb01, U_mysql >>, << K_CTM01, U_mysql >>,
         << K_MONTRG, U_pg >>, << K_CMMS, U_oracle >> >>,
      << << K_Banb01, U_mysql >>, << K_IP04, U_mysql >> >>,
      << << K_CMMS, U_oracle >> >>,
      << << K_MONTRG, U_pg >>, << K_CMMS, U_oracle_thin >> >> }

\* a variable is deleted from os.environ before the endpoint is called or
\* while its coroutine waits
EnvDelAroundCall ==
    /\ apiCall.fn = "none" \/ apiCall.out.status_code = Waiting
    /\ EnvDel

InitApi == InitWith(ApiEnvironments)
NextApi ==
    \/ Boot
    \/ EnvDelAroundCall
    \/ ReadinessProbe
    \/ \E r \in Requests :
        \/ TestDatabaseConnections(r)
        \/ TestDatabaseConnection(r)
        \/ GetDataByPids(r)
        \/ Checkout(r) \/ QueryDone(r) \/ QueryError(r) \/ CancelBody(r)
        \/ InnerClose(r) \/ CancelInnerClose(r) \/ AExitClose(r) \/ CancelAExit(r)
        \/ ShieldedCloseDone(r)
ApiSpec == InitApi /\ [][NextApi]_vars

(***************************************************************************)
(* Properties of the scoped session and of the blocking CMMS path          *)
(***************************************************************************)
InBlock == { "body", "inner_close", "aexit_close" }

\* the tasks that hold a connection of the pool of alias a: those inside
\* their get_session block, and init_db inside "async with engine.begin()"
Holders(a) ==
    { r \in Requests : /\ req[r].pc \in InBlock \cup { "create_all" }
                       /\ req[r].alias = a
                       /\ req[r].conn = "out" }

\* C1: a session borrowed through get_session is returned on every exit
\* path: the borrowed count of each asynchronous pool counts only requests
\* still inside their block, so it is back at its earlier value once a block
\* is left, and a request that has left get_session (by return, by error or
\* by cancellation) holds no connection.
C1_SessionReleased ==
    /\ \A a \in Range(ASYNC_ENGINES) : borrowed[a] = Cardinality(Holders(a))
    /\ \A r \in Requests :
        (req[r].kind = "session" /\ req[r].pc = "done") => req[r].conn # "out"

\* the CancelledError has left get_session while the session still has its
\* connection and the pool still counts it; the close task runs on
C1_LeftWithConnection ==
    \E r \in Requests :
        /\ req[r].kind = "session" /\ req[r].pc = "done" /\ req[r].outcome = "cancelled"
        /\ req[r].closing /\ req[r].conn = "out"
        /\ borrowed[req[r].alias] = 1

\* the tasks of alias a whose session, or whose init_db block, has a
\* connection checked out
Unreturned(a) ==
    { r \in Requests : req[r].alias = a /\ req[r].conn = "out" }

\* C1, the part that holds: a block left by a return or by an error has
\* released its connection, and so has a block left by a cancellation unless
\* the cancellation came while the close at the end of "async with
\* session_factory()" was awaited; the pool counts the connections not yet
\* released
C1_ReleasedUnlessCloseCancelled ==
    /\ \A a \in Range(ASYNC_ENGINES) : borrowed[a] = Cardinality(Unreturned(a))
    /\ \A r \in Requests :
        (req[r].kind = "session" /\ req[r].pc = "done" /\ ~req[r].closing)
            => req[r].conn # "out"

\* the request has a session object: it is inside its get_session block, or
\* the close task of the block it left still runs on the session
HasSession(r) == req[r].pc \in InBlock \/ req[r].closing

\* C2: two requests that are inside a get_session block at the same time
\* never hold the same session object, and the session of a request is not
\* the one a close task still works on.
C2_ExclusiveSession ==
    \A r1, r2 \in Requests :
        (r1 # r2 /\ req[r1].pc \in InBlock /\ HasSession(r2)) =>
            /\ req[r1].session # 0
            /\ req[r1].session # req[r2].session

\* two requests hold sessions of the same alias at the same time, the
\* second one an object built while the first was in use
C2_Witness ==
    \E r1, r2 \in Requests :
        /\ r1 # r2
        /\ req[r1].pc = "body" /\ req[r2].pc = "body"
        /\ req[r1].alias = req[r2].alias
        /\ req[r1].conn = "out" /\ req[r2].conn = "out"
        /\ req[r1].session = 1 /\ req[r2].session = 2

\* C3: get_session on an alias with a synchronous engine always fails with
\* the strategy-mismatch error and yields no session; a connection of the
\* synchronous engine is only taken through get_sync_engine on the worker.
C3_SyncAliasRejected ==
    /\ \A r \in Requests :
        (req[r].kind = "session" /\ req[r].alias \in Range(SYNC_ENGINES)) =>
            /\ req[r].pc = "done"
            /\ req[r].outcome = "raised"
            /\ req[r].error = "StrategyMismatch"
            /\ req[r].session = 0
            /\ req[r].conn = "none"
    /\ \A a \in Range(SYNC_ENGINES) :
        borrowed[a] = Cardinality({ r \in Requests : worker[r].state = "connected" })

\* get_session("cmms") was refused while a worker holds the CMMS connection
C3_Witness ==
    \E r, w \in Requests :
        /\ req[r].kind = "session"
        /\ req[r].db = S_cmms
        /\ req[r].error = "StrategyMismatch"
        /\ worker[w].state = "connected"

\* C4: a CMMS query runs on a worker thread and its result is what the
\* awaiting request returns; while it is in flight the event loop is free,
\* so a concurrent request waiting for its own query can be resumed.
C4_OffLoop ==
    /\ (\E r \in Requests : worker[r].state \in InFlight) =>
            /\ LoopFree
            /\ \A q \in Requests :
                (req[q].pc = "body" /\ req[q].conn = "out") => ENABLED QueryDone(q)
    /\ \A r \in Requests :
        (req[r].kind = "cmms" /\ req[r].outcome = "returned") =>
            /\ worker[r].state = "finished"
            /\ worker[r].result \in ReturnedResults
            /\ req[r].result = worker[r].result
    /\ \A r \in Requests :
        (req[r].kind = "cmms" /\ req[r].outcome = "raised") =>
            /\ worker[r].state = "finished"
            /\ req[r].error = worker[r].result

\* a request awaits its CMMS round trip, which is in flight, while a
\* session request that waits for its own query can be resumed
C4_Witness ==
    \E r, q \in Requests :
        /\ req[r].pc = "awaiting_thread" /\ worker[r].state = "connected"
        /\ req[q].pc = "body" /\ req[q].conn = "out"
        /\ ENABLED QueryDone(q)


(***************************************************************************)
(* Properties of provisioning and alias resolution                         *)
(***************************************************************************)
Urls == database_urls(environ, settings)

Engines == Range(ASYNC_ENGINES) \cup Range(SYNC_ENGINES)

\* the URL names the oracle+oracledb scheme, compared letter by letter
\* whatever the case
OracleScheme(url) ==
    /\ Len(url) >= Len(S_oracle_oracledb)
    /\ \A i \in DOMAIN S_oracle_oracledb :
        \E j \in DOMAIN LowerLetters \cup { 0 } :
            IF j = 0
            THEN url[i] = S_oracle_oracledb[i]
            ELSE url[i] \in { LowerLetters[j], UpperLetters[j] }
                 /\ S_oracle_oracledb[i] = LowerLetters[j]

\* C5: after provisioning every alias of the registry owns exactly one
\* engine; it is synchronous if and only if the alias is cmms and its URL
\* starts, in any letter case, with oracle+oracledb; every other alias is
\* asynchronous and has a session factory; no alias is in both maps or in
\* neither.
C5_OneEnginePerAlias ==
    boot = "running" =>
        /\ \A i \in DOMAIN Urls :
            LET a == Urls[i][1]
                u == Urls[i][2]
                oracleCmms == a = S_cmms /\ OracleScheme(u)
            IN  /\ (a \in Range(SYNC_ENGINES)) <=> oracleCmms
                /\ (a \in Range(ASYNC_ENGINES)) <=> ~oracleCmms
                /\ (a \in Range(SESSION_FACTORIES)) <=> ~oracleCmms
        /\ Range(ASYNC_ENGINES) \cap Range(SYNC_ENGINES) = { }
        /\ Engines = Range(keys(Urls))
        /\ Len(ASYNC_ENGINES) + Len(SYNC_ENGINES) = Len(Urls)

\* an upper-case Oracle URL on cmms next to an asynchronous alias
C5_Witness ==
    /\ boot = "running"
    /\ S_cmms \in Range(SYNC_ENGINES)
    /\ \E i \in DOMAIN Urls : Urls[i] = << S_cmms, U_ORACLE >>
    /\ Len(ASYNC_ENGINES) > 0

\* C6: the Oracle client initialization is attempted only with a cmms alias
\* and before any engine exists; an already-initialized error (DPY-0005)
\* lets the import go on as a success does; any other failure aborts the
\* import with no engine and no session factory created.
C6_OracleInit ==
    /\ oracle # "not_attempted" => InDict(S_cmms, Urls)
    /\ (Engines # { } /\ InDict(S_cmms, Urls)) => oracle \in { "initialized", "DPY-0005" }
    /\ oracle \in { "initialized", "DPY-0005" } => boot # "aborted" /\ bootError = NoError
    /\ oracle \in { "ProgrammingError", "DatabaseError", "ImportError" } =>
        /\ boot = "aborted"
        /\ bootError = "OracleInitFailed"
        /\ Engines = { }
        /\ Len(SESSION_FACTORIES) = 0

\* the import completed after a second initialization
C6_Witness ==
    /\ oracle = "DPY-0005"
    /\ boot = "running"
    /\ S_cmms \in Engines

\* the aliases resolve_db_alias accepts
Accepted ==
    { a \in ((AliasInputs \ { None, S_empty }) \cup Engines) : resolve_db_alias(a).ok }

\* C7: while the process runs, whatever happens to the environment, the
\* aliases that resolve_db_alias accepts are exactly the aliases that own
\* an engine.
C7_RegistryImmutable ==
    boot = "running" => Accepted = Engines

\* C8: resolve_db_alias returns a registered alias unchanged, returns the
\* default alias (the first discovered one) for None and for the empty
\* string, so that resolving None and resolving the default alias agree,
\* and rejects a non-empty unregistered alias without substituting.
C8_Resolve ==
    lastResolve.called =>
        LET a == lastResolve.input
        IN  /\ (a # None /\ InDict(a, Urls)) =>
                lastResolve.ok /\ lastResolve.alias = a
            /\ (a = None \/ a = S_empty) =>
                /\ lastResolve.ok
                /\ lastResolve.alias = Urls[1][1]
                /\ lastResolve.alias = default_database_alias(environ, settings)
                /\ lastResolve.alias = resolve_db_alias(default_database_alias(environ, settings)).alias
            /\ (a # None /\ a # S_empty /\ ~InDict(a, Urls)) =>
                ~lastResolve.ok /\ lastResolve.error = "UnknownAlias"

\* None was resolved to the default alias of a registry of several aliases
C8_Witness ==
    /\ lastResolve.called
    /\ lastResolve.input = None
    /\ lastResolve.ok
    /\ lastResolve.alias = S_ip04
    /\ Len(Urls) > 1

\* C9: the aliases carried by an unknown-alias error are all the registered
\* aliases, the synchronous cmms alias included.
C9_ErrorListsAll ==
    (lastResolve.called /\ ~lastResolve.ok) => lastResolve.available = keys(Urls)

\* a key of one of the four naming patterns, in any letter case
IsPatternKey(key) ==
    \/ pattern_match(S_IP, key)
    \/ pattern_match(S_BANB, key)
    \/ pattern_match(S_CTM, key)
    \/ /\ Len(key) > Len(S_CKP_) + Len(S_DATABASE_URL)
       /\ startswith(upper(key), S_CKP_)
       /\ endswith(upper(key), S_DATABASE_URL)

\* the key without its 13-character suffix, in lower case
ExpectedAlias(key) == lower(SubSeq(key, 1, Len(key) - Len(S_DATABASE_URL)))

\* C10: every key of one of the four patterns, in any letter case, with a
\* non-empty value, yields the alias that is the key without _DATABASE_URL,
\* in lower case; and every discovered alias is lower-case.
C10_LowerCaseAlias ==
    \A n \in DOMAIN discovered :
        /\ \A i \in DOMAIN environ :
            (Len(environ[i][2]) > 0 /\ IsPatternKey(environ[i][1])) =>
                InDict(ExpectedAlias(environ[i][1]), discovered[n])
        /\ \A j \in DOMAIN discovered[n] :
            discovered[n][j][1] = lower(discovered[n][j][1])

(***************************************************************************)
(* Claims about discovery, continued                                       *)
(***************************************************************************)
\* position of an alias in a mapping, 0 when it is absent
IndexOf(alias, urls) ==
    IF InDict(alias, urls) THEN CHOOSE i \in DOMAIN urls : urls[i][1] = alias ELSE 0

NotIp99(item) == item[1] # S_ip99

\* after is before plus the one alias ip99, placed ahead of montrg and cmms
AddsOnlyIp99(before, after) ==
    /\ ~ InDict(S_ip99, before)
    /\ Len(after) = Len(before) + 1
    /\ InDict(S_ip99, after)
    /\ SelectSeq(after, NotIp99) = before
    /\ \A k \in DOMAIN after :
        after[k][1] \in { S_montrg, S_cmms } => IndexOf(S_ip99, after) < k

\* C11: two reads of database_urls on the same configuration return the same
\* ordered mapping, and a read after IP99_DATABASE_URL was added returns the
\* earlier mapping with exactly the one alias ip99 added: every earlier alias
\* keeps its URL and its relative order, montrg and cmms staying last.
C11_OrderStable ==
    \A i, j \in DOMAIN discovered :
        i < j =>
            IF added = -1 \/ j <= added \/ i > added
            THEN discovered[i] = discovered[j]
            ELSE AddsOnlyIp99(discovered[i], discovered[j])

\* a read before and a read after the addition, with a pattern alias and
\* the fixed montrg entry already discovered
C11_Witness ==
    /\ Len(discovered) = 2
    /\ added = 1
    /\ Len(discovered[1]) = 2
    /\ InDict(S_montrg, discovered[1])
    /\ InDict(S_ip99, discovered[2])

\* str.strip() leaves nothing: the value is empty or whitespace only
IsBlank(v) == \A i \in DOMAIN v : v[i] \in Whitespace

\* C12: no alias of a discovered mapping has an empty or blank connection URL,
\* the pattern-based entries and the fixed montrg and cmms entries alike.
C12_NoBlankUrl ==
    \A n \in DOMAIN discovered :
        \A j \in DOMAIN discovered[n] : ~ IsBlank(discovered[n][j][2])

(***************************************************************************)
(* Claims about the date resolvers                                         *)
(***************************************************************************)
\* the Gregorian calendar, stated without the resolver's arithmetic
LeapYear(y) == y % 4 = 0 /\ (y % 100 # 0 \/ y % 400 = 0)
LengthOfMonth(y, m) ==
    IF m = 2 THEN (IF LeapYear(y) THEN 29 ELSE 28)
    ELSE IF m \in { 4, 6, 9, 11 } THEN 30 ELSE 31
ValidYear(y) == y >= 1 /\ y <= 9999
ValidMonth(y, m) == ValidYear(y) /\ m >= 1 /\ m <= 12
ValidDay(y, m, d) == ValidMonth(y, m) /\ d >= 1 /\ d <= LengthOfMonth(y, m)

\* the first instant of a day, as a naive datetime
Midnight(y, m, d) == << y, m, d, 0, 0, 0, 0, None >>
MonthAfter(y, m) == IF m = 12 THEN Midnight(y + 1, 1, 1) ELSE Midnight(y, m + 1, 1)
DayAfter(y, m, d) == IF d < LengthOfMonth(y, m) THEN Midnight(y, m, d + 1) ELSE MonthAfter(y, m)

YearKey(y) == zfill(y, 4)
MonthKey(y, m) == zfill(y, 4) \o zfill(m, 2)
DayKey(y, m, d) == zfill(y, 4) \o zfill(m, 2) \o zfill(d, 2)

\* C13: for every valid 4-digit, 6-digit or 8-digit date key k,
\* _resolve_date_key(k) returns (start, end) with start the first instant of the
\* year, month or day that k denotes and end the first instant of the next
\* year, month or day, also across the December to January rollover and for
\* 28 and 29 February in leap and non-leap years.
C13_PeriodResolved ==
    dateCall.fn = "_resolve_date_key" =>
        /\ \A y \in YearInputs :
            ValidYear(y) /\ dateCall.args = << YearKey(y) >>
                => dateCall.out = Ok(<< Midnight(y, 1, 1), Midnight(y + 1, 1, 1) >>)
        /\ \A y \in YearInputs, m \in MonthInputs :
            ValidMonth(y, m) /\ dateCall.args = << MonthKey(y, m) >>
                => dateCall.out = Ok(<< Midnight(y, m, 1), MonthAfter(y, m) >>)
        /\ \A y \in YearInputs, m \in MonthInputs, d \in DayInputs :
            ValidDay(y, m, d) /\ dateCall.args = << DayKey(y, m, d) >>
                => dateCall.out = Ok(<< Midnight(y, m, d), DayAfter(y, m, d) >>)


\* the digits-only key of a separator form
undash(key) == IF key = None THEN None ELSE replace(key, << "-" >>, << >>)

\* C14 as stated: every date-key resolver accepts the separator forms YYYY-MM
\* and YYYY-MM-DD and resolves each to exactly the range of the digits-only key
\* of the same period.
C14_SeparatorFormsEverywhere ==
    /\ dateCall.fn = "_resolve_date_key" /\ dateCall.args[1] \in { DK_2024_12, DK_2024_12_05 }
        => /\ dateCall.out.raised = "none"
           /\ dateCall.out = _resolve_date_key(undash(dateCall.args[1]))
    /\ dateCall.fn = "_resolve_cycle_start_range" /\ dateCall.args \in { << DK_2024_12, DK_2024_12 >>, << DK_2024_12_05, DK_2024_12_05 >> }
        => /\ dateCall.out.raised = "none"
           /\ dateCall.out = _resolve_cycle_start_range(undash(dateCall.args[1]),
                                                        undash(dateCall.args[2]))

\* C14, the part that holds: the cycle-start range resolver accepts the
\* separator forms YYYY-MM and YYYY-MM-DD and resolves each, alone or in a
\* pair, to exactly the outcome of the digits-only keys of the same periods
\* ('2024-12' to the whole of December 2024).  The HMI resolver
\* _resolve_date_key raises its format error for them, which is where C14
\* fails.
C14_CycleSeparatorForms ==
    /\ dateCall.fn = "_resolve_cycle_start_range"
       /\ dateCall.args[1] \in SeparatorKeys \cup { None }
       /\ dateCall.args[2] \in SeparatorKeys \cup { None }
        => dateCall.out = _resolve_cycle_start_range(undash(dateCall.args[1]),
                                                     undash(dateCall.args[2]))
    /\ dateCall.fn = "_resolve_cycle_start_range"
       /\ dateCall.args = << DK_2024_12, DK_2024_12 >>
        => dateCall.out = Ok(<< << 2024, 12, 1, 0, 0, 0, 0, DEFAULT_TZ >>,
                                << 2025, 1, 1, 0, 0, 0, 0, DEFAULT_TZ >> >>)
    /\ dateCall.fn = "_resolve_cycle_start_range"
       /\ dateCall.args = << DK_2024_12_05, DK_2024_12_05 >>
        => dateCall.out = Ok(<< << 2024, 12, 5, 0, 0, 0, 0, DEFAULT_TZ >>,
                                << 2024, 12, 6, 0, 0, 0, 0, DEFAULT_TZ >> >>)
    /\ dateCall.fn = "_resolve_date_key" /\ dateCall.args[1] \in { DK_2024_12, DK_2024_12_05 }
        => dateCall.out = Raise("ValueError", M_date_key)

\* the HMI resolver was called with '2024-12-05' and raised
C14_HmiRejects ==
    /\ dateCall.fn = "_resolve_date_key"
    /\ dateCall.args = << DK_2024_12_05 >>
    /\ dateCall.out = Raise("ValueError", M_date_key)


\* the messages that name the accepted formats
FormatMessages == { M_date_key, M_chiller_formats, M_cycle_formats }

\* C15: every date input that a resolver rejects, be it of a wrong length or
\* with wrong characters or of an accepted shape that denotes no real calendar
\* period (month 13, day 32), is rejected with an error whose message names the
\* accepted formats.
C15_RejectionNamesFormats ==
    /\ dateCall.fn \in { "_resolve_date_key", "_parse_date_string", "_parse_cycle_start_date" }
    /\ dateCall.out.raised # "none"
    => /\ dateCall.out.raised = "ValueError"
       /\ dateCall.out.msg \in FormatMessages


PairResolvers == { "fetch_rtf_data_by_pid_and_range", "fetch_banb_data_by_pid_and_range",
                   "_resolve_cycle_start_range" }
HmiPairResolvers == { "fetch_rtf_data_by_pid_and_range", "fetch_banb_data_by_pid_and_range" }

\* the coroutines: they resolve a range and await the query it is handed to
Coroutines ==
    { "fetch_rtf_data_by_pid_and_range", "fetch_banb_data_by_pid_and_range",
      "get_banb_data_by_range", "get_chiller_status_history_by_range",
      "get_banbury_anomaly_results" }

\* the call resolved a range: a resolver returned it, or a coroutine handed it
\* to its query, which it awaits or which has answered
HasRange ==
    /\ dateCall.fn \in PairResolvers \cup Coroutines \cup { "resolve_date_range" }
    /\ dateCall.out.raised \in { "none", "pending" }
Handed ==
    IF dateCall.fn \in Coroutines /\ dateCall.out.raised = "none"
    THEN << dateCall.out.value.start, dateCall.out.value.end >>
    ELSE SubSeq(dateCall.out.value, 1, 2)

\* the start key and the end key of a call that takes a pair
Keys == SubSeq(dateCall.args, 1, 2)

\* exactly one of the two keys of the call is supplied
LoneStart == truthy(dateCall.args[1]) /\ ~ truthy(dateCall.args[2])
LoneEnd == ~ truthy(dateCall.args[1]) /\ truthy(dateCall.args[2])
BothKeys == truthy(dateCall.args[1]) /\ truthy(dateCall.args[2])

\* C16 as stated: when exactly one of start key and end key is supplied, every
\* pair resolver returns a range with both bounds set, the supplied key's own
\* period.
C16_MissingBoundInferredEverywhere ==
    /\ dateCall.fn \in PairResolvers
    /\ LoneStart \/ LoneEnd
    /\ HasRange
    => /\ Handed[1] # None
       /\ Handed[2] # None

\* C16, amended: with exactly one key supplied, the HMI pair resolvers return
\* the supplied key's own period with both bounds set ('202412' alone gives
\* [2024-12-01T00:00:00, 2025-01-01T00:00:00)), while the cycle-start range
\* resolver sets only the bound of the supplied key and leaves the other unset;
\* with both keys supplied every pair resolver takes start from the start key's
\* period start and end from the end key's period end, whatever the two
\* granularities.
C16_PairBounds ==
    /\ dateCall.fn \in HmiPairResolvers /\ LoneStart
        => IF _resolve_date_key(dateCall.args[1]).raised # "none"
           THEN dateCall.out = _resolve_date_key(dateCall.args[1])
           ELSE HasRange => Handed = _resolve_date_key(dateCall.args[1]).value
    /\ dateCall.fn \in HmiPairResolvers /\ LoneEnd
        => IF _resolve_date_key(dateCall.args[2]).raised # "none"
           THEN dateCall.out = _resolve_date_key(dateCall.args[2])
           ELSE HasRange => Handed = _resolve_date_key(dateCall.args[2]).value
    /\ dateCall.fn \in HmiPairResolvers /\ HasRange
       /\ Keys \in { << DK_202412, None >>, << None, DK_202412 >>, << DK_202412, S_empty >> }
        => Handed = << Midnight(2024, 12, 1), Midnight(2025, 1, 1) >>
    /\ dateCall.fn \in HmiPairResolvers /\ BothKeys /\ HasRange
        => Handed = << _resolve_date_key(dateCall.args[1]).value[1],
                       _resolve_date_key(dateCall.args[2]).value[2] >>
    /\ dateCall.fn = "_resolve_cycle_start_range" /\ LoneStart /\ dateCall.out.raised = "none"
        => /\ dateCall.out.value[1] # None
           /\ dateCall.out.value[2] = None
    /\ dateCall.fn = "_resolve_cycle_start_range" /\ LoneEnd /\ dateCall.out.raised = "none"
        => /\ dateCall.out.value[1] = None
           /\ dateCall.out.value[2] # None
    /\ dateCall.fn = "_resolve_cycle_start_range" /\ dateCall.args = << DK_202412, None >>
        => dateCall.out = Ok(<< << 2024, 12, 1, 0, 0, 0, 0, DEFAULT_TZ >>, None >>)
    /\ dateCall.fn = "_resolve_cycle_start_range" /\ dateCall.args = << None, DK_202412 >>
        => dateCall.out = Ok(<< None, << 2025, 1, 1, 0, 0, 0, 0, DEFAULT_TZ >> >>)
    /\ dateCall.fn = "_resolve_cycle_start_range" /\ BothKeys /\ dateCall.out.raised = "none"
        => dateCall.out.value =
              << _resolve_cycle_start_range(dateCall.args[1], None).value[1],
                 _resolve_cycle_start_range(None, dateCall.args[2]).value[2] >>

\* the query of the lone start key '202412' has answered
C16_Witness ==
    /\ dateCall.fn = "fetch_rtf_data_by_pid_and_range"
    /\ dateCall.args = << DK_202412, None, 1, 5000 >>
    /\ dateCall.out.raised = "none"
    /\ dateCall.out.value.result # None



\* the calls that hand their range to a query
RangeCalls == PairResolvers \cup { "get_banbury_anomaly_results" }

\* C17: a pair resolver never hands a range with start >= end to a query:
\* whenever both bounds are present and the resolved start is not strictly
\* earlier than the resolved end the request fails with the invalid-range
\* error, as it does for the pair ('2024-12-05', '2024-12-04').
C17_NoInvertedRange ==
    /\ dateCall.fn \in RangeCalls /\ HasRange
       /\ Handed[1] # None /\ Handed[2] # None
        => Earlier(Handed[1], Handed[2])
    /\ dateCall.fn \in RangeCalls
       /\ dateCall.args[1] = DK_2024_12_05 /\ dateCall.args[2] = DK_2024_12_04
        => /\ ~ HasRange
           /\ dateCall.out.msg = M_start_key


\* the five documented shapes of a token
RecognisedShapes == { "yyyy", "yyyyMM", "yyyyMMdd", "yyyyMMdd HH:MM", "yyyyMMdd HH:MM:SS" }

\* n digits, and the patterns of the time of day
DigitsOf(n) == [ i \in 1..n |-> "d" ]
HourMinute == << " ", "d", "d", ":", "d", "d" >>
Seconds == << ":", "d", "d" >>

\* the token has a digit (a character of str.isdigit) where the pattern has
\* "d" and the pattern's own character elsewhere
Shaped(token, pattern) ==
    /\ Len(token) = Len(pattern)
    /\ \A i \in 1..Len(pattern) :
        IF pattern[i] = "d" THEN isdigit(<< token[i] >>) ELSE token[i] = pattern[i]

\* the documented shape of a token, read off its characters: 'yyyy' is
\* four digits, 'yyyyMMdd HH:MM' is eight digits, a space and HH:MM
DocumentedShape(token) ==
    LET stripped == strip(token)
    IN  IF Shaped(stripped, DigitsOf(8) \o HourMinute \o Seconds) THEN "yyyyMMdd HH:MM:SS"
        ELSE IF Shaped(stripped, DigitsOf(8) \o HourMinute) THEN "yyyyMMdd HH:MM"
        ELSE IF Shaped(stripped, DigitsOf(8)) THEN "yyyyMMdd"
        ELSE IF Shaped(stripped, DigitsOf(6)) THEN "yyyyMM"
        ELSE IF Shaped(stripped, DigitsOf(4)) THEN "yyyy"
        ELSE "unknown"

\* the format-mismatch error of resolve_date_range, whatever types it names
MismatchError(out) ==
    /\ out.raised = "ValueError"
    /\ \E a, b \in RecognisedShapes \cup { "unknown" } :
        out.msg = M_same_formats \o "start_dt format: " \o a \o ", end_dt format: " \o b

\* C18: in the device-history range resolver, whenever both a start and an end
\* token are supplied and their shapes differ, resolve_date_range fails with
\* the format-mismatch error and returns no range; it returns a range only
\* when both tokens have the same recognised shape.
C18_FormatMismatch ==
    dateCall.fn = "resolve_date_range" /\ BothKeys =>
        LET start_shape == DocumentedShape(dateCall.args[1])
            end_shape == DocumentedShape(dateCall.args[2])
        IN  /\ start_shape # end_shape => MismatchError(dateCall.out)
            /\ dateCall.out.raised = "none"
                => /\ start_shape = end_shape
                   /\ start_shape \in RecognisedShapes

\* C18 holds for the pairs of tokens to which _get_date_format_type gives
\* their documented shape, which are all but those with a time of day
C18_ButTimeForms ==
    /\ dateCall.fn = "resolve_date_range" /\ BothKeys
    /\ \A i \in 1..2 :
        _get_date_format_type(dateCall.args[i]) = DocumentedShape(dateCall.args[i])
    => C18_FormatMismatch

\* C18, the part that holds: the format types that _get_date_format_type
\* gives the two tokens are compared; when they differ the call fails with the
\* format-mismatch error that names both, and a range is returned only when
\* they are equal and not "unknown".
C18_TypesCompared ==
    dateCall.fn = "resolve_date_range" /\ BothKeys =>
        LET start_format == _get_date_format_type(dateCall.args[1])
            end_format == _get_date_format_type(dateCall.args[2])
        IN  /\ start_format # end_format
                => /\ dateCall.out.raised = "ValueError"
                   /\ dateCall.out.msg = M_same_formats \o "start_dt format: " \o start_format
                                         \o ", end_dt format: " \o end_format
            /\ dateCall.out.raised = "none"
                => /\ start_format = end_format
                   /\ start_format \in RecognisedShapes

\* the documented minute and second tokens were given as a pair and the call
\* raised the invalid-format error
C18_DocumentedPairRejected ==
    /\ dateCall.fn = "resolve_date_range"
    /\ dateCall.args = << CK_minute, CK_second >>
    /\ dateCall.out.raised = "ValueError"
    /\ ~ MismatchError(dateCall.out)


\* 2024-12-05T14:30:00, the instant that both documented time tokens denote
Documented_instant == << 2024, 12, 5, 14, 30, 0, 0, None >>

\* C19: the device-history range resolver accepts tokens of the documented
\* forms 'yyyyMMdd HH:MM' ('20241205 14:30') and 'yyyyMMdd HH:MM:SS'
\* ('20241205 14:30:00'), classifies them as the time-bearing format types and
\* uses the exact instant they denote as the bound, unchanged.
C19_DocumentedTimeForms ==
    /\ dateCall.fn = "_parse_date_string" /\ dateCall.args[1] = CK_minute
        => /\ _get_date_format_type(dateCall.args[1]) = "yyyyMMdd HH:MM"
           /\ dateCall.out = Ok(Documented_instant)
    /\ dateCall.fn = "_parse_date_string" /\ dateCall.args[1] = CK_second
        => /\ _get_date_format_type(dateCall.args[1]) = "yyyyMMdd HH:MM:SS"
           /\ dateCall.out = Ok(Documented_instant)
    /\ dateCall.fn = "resolve_date_range"
       /\ dateCall.args \in { << CK_minute, None >>, << CK_second, None >> }
        => dateCall.out = Ok(<< Documented_instant, None >>)
    /\ dateCall.fn = "resolve_date_range"
       /\ dateCall.args \in { << None, CK_minute >>, << None, CK_second >> }
        => dateCall.out = Ok(<< None, Documented_instant >>)
    /\ dateCall.fn = "get_chiller_status_history_by_range"
       /\ Keys \in { << CK_minute, None >>, << CK_second, None >> }
        => /\ dateCall.out.raised # "HTTP 400"
           /\ HasRange => Handed = << Documented_instant, None >>
    /\ dateCall.fn = "get_chiller_status_history_by_range"
       /\ Keys \in { << None, CK_minute >>, << None, CK_second >> }
        => /\ dateCall.out.raised # "HTTP 400"
           /\ HasRange => Handed = << None, Documented_instant >>


\* tokens without an offset, with the wall-clock time they are written for
NaiveTokens ==
    { [ text |-> DK_2024, wall |-> << 2024, 1, 1, 0, 0, 0, 0 >> ],
      [ text |-> DK_202412, wall |-> << 2024, 12, 1, 0, 0, 0, 0 >> ],
      [ text |-> DK_2024_12, wall |-> << 2024, 12, 1, 0, 0, 0, 0 >> ],
      [ text |-> DK_20241205, wall |-> << 2024, 12, 5, 0, 0, 0, 0 >> ],
      [ text |-> DK_2024_12_05, wall |-> << 2024, 12, 5, 0, 0, 0, 0 >> ],
      [ text |-> CY_minute, wall |-> << 2024, 12, 5, 14, 30, 0, 0 >> ],
      [ text |-> CY_second, wall |-> << 2024, 12, 5, 14, 30, 0, 0 >> ],
      [ text |-> CY_iso_T, wall |-> << 2024, 12, 5, 14, 30, 0, 0 >> ],
      [ text |-> CK_minute, wall |-> << 2024, 12, 5, 14, 30, 0, 0 >> ],
      [ text |-> CK_second, wall |-> << 2024, 12, 5, 14, 30, 0, 0 >> ],
      [ text |-> CY_1988_07_01, wall |-> << 1988, 7, 1, 0, 0, 0, 0 >> ],
      [ text |-> DK_1900, wall |-> << 1900, 1, 1, 0, 0, 0, 0 >> ] }

\* tokens with an explicit offset (or Z), with their wall-clock time and the
\* offset in seconds and microseconds
OffsetTokens ==
    { [ text |-> CY_iso_kst, offset |-> << 32400, 0 >>, wall |-> << 2024, 12, 5, 14, 30, 0, 0 >> ],
      [ text |-> CY_iso_Z, offset |-> << 0, 0 >>, wall |-> << 2024, 12, 5, 14, 30, 0, 0 >> ],
      [ text |-> CY_iso_utc, offset |-> << 0, 0 >>, wall |-> << 2024, 12, 5, 5, 30, 0, 0 >> ],
      [ text |-> CY_iso_est, offset |-> << -18000, 0 >>, wall |-> << 2024, 12, 5, 14, 30, 0, 0 >> ],
      [ text |-> CY_iso_kst_us, offset |-> << 32400, 1 >>, wall |-> << 2024, 12, 5, 0, 0, 0, 0 >> ] }

\* C20: _parse_cycle_start_date always returns a timezone-aware instant: a
\* token without an explicit offset, of any granularity, is read as wall-clock
\* time in the one fixed local timezone (Asia/Seoul) and never as UTC, and a
\* token with an explicit ISO-8601 offset or 'Z' keeps the instant that the
\* offset denotes.
C20_AwareInstant ==
    dateCall.fn = "_parse_cycle_start_date" =>
        /\ dateCall.out.raised = "none" => tzinfo_of(dateCall.out.value) # None
        /\ \A t \in NaiveTokens :
            dateCall.args = << t.text >>
                => /\ dateCall.out = Ok(t.wall \o << DEFAULT_TZ >>)
                   /\ Instant(dateCall.out.value) # Instant(t.wall \o << timezone_utc >>)
        /\ \A t \in OffsetTokens :
            dateCall.args = << t.text >>
                => /\ dateCall.out.raised = "none"
                   /\ fields(dateCall.out.value) = t.wall
                   /\ utcoffset(dateCall.out.value) = t.offset
                   /\ tzinfo_of(dateCall.out.value) # DEFAULT_TZ

C20_Witness ==
    /\ dateCall.fn = "_parse_cycle_start_date"
    /\ dateCall.args = << CY_minute >>
    /\ dateCall.out.raised = "none"
    /\ tzinfo_of(dateCall.out.value) = DEFAULT_TZ

(***************************************************************************)
(* Claims about the shift business date                                    *)
(***************************************************************************)
ShiftCall == dateCall.fn = "get_jakarta_shift_business_date"

\* the instant the call is about: its argument, or the clock's time
ShiftInstant == IF dateCall.args[1] = None THEN dateCall.args[2] ELSE dateCall.args[1]

SecondOfDay(dt) == hour_of(dt) * 3600 + minute_of(dt) * 60 + second_of(dt)

\* the instant in UTC as << ordinal, second of the day, microsecond >>; a
\* naive instant is a Jakarta wall-clock time and needs no UTC time
UtcTime(now) ==
    IF tzinfo_of(now) \in { None, JAKARTA_TZ }
    THEN << ymd2ord(year_of(now), month_of(now), day_of(now)), SecondOfDay(now),
            microsecond_of(now) >>
    ELSE Instant(now)

\* the Jakarta wall-clock time of the instant, in the same form
JakartaTime(now) ==
    IF tzinfo_of(now) \in { None, JAKARTA_TZ } THEN UtcTime(now)
    ELSE LET utc == UtcTime(now)
             s == utc[2] + jakarta_utcoffset(<< utc[1], utc[2] >>)
         IN  << utc[1] + (s \div 86400), s % 86400, utc[3] >>

JakartaWeekday(now) == (JakartaTime(now)[1] + 6) % 7
JakartaDate(now) == ord2ymd(JakartaTime(now)[1])
DayBefore(now) == ord2ymd(JakartaTime(now)[1] - 1)
FirstBoundary == 6 * 3600 + 30 * 60

\* C21: for every instant whose Jakarta weekday is Monday to Friday the
\* business date is the instant's own Jakarta date from 06:30:00 on and the
\* previous calendar date before 06:30:00
C21_WeekdayBoundary ==
    ShiftCall /\ JakartaWeekday(ShiftInstant) \in 0..4
    => IF JakartaTime(ShiftInstant)[2] >= FirstBoundary
       THEN dateCall.out = Ok(JakartaDate(ShiftInstant))
       ELSE dateCall.out = Ok(DayBefore(ShiftInstant))

\* a Monday-to-Friday instant one microsecond before 06:30:00, given
\* without a timezone, got the date before its Jakarta date
C21_Witness ==
    /\ ShiftCall /\ JakartaWeekday(ShiftInstant) \in 0..4
    /\ tzinfo_of(ShiftInstant) = None
    /\ JakartaTime(ShiftInstant)[2] = FirstBoundary - 1
    /\ JakartaTime(ShiftInstant)[3] = 999999
    /\ dateCall.out = Ok(DayBefore(ShiftInstant))

\* the shift windows of the table: weekday, start and end in seconds from
\* the midnight the weekday begins with
ShiftWindow(day, from, to) == [ day |-> day, from |-> from, to |-> to ]
At(h, m) == h * 3600 + m * 60
ShiftWindows ==
    { ShiftWindow(d, At(6, 30), At(14, 30)) : d \in 0..3 }
    \cup { ShiftWindow(d, At(14, 30), At(22, 30)) : d \in 0..3 }
    \cup { ShiftWindow(d, At(22, 30), At(24 + 6, 30)) : d \in 0..3 }
    \cup { ShiftWindow(4, At(6, 30), At(15, 0)), ShiftWindow(4, At(15, 0), At(23, 0)),
           ShiftWindow(4, At(22, 30), At(24 + 6, 30)),
           ShiftWindow(5, At(6, 30), At(11, 30)), ShiftWindow(5, At(11, 30), At(16, 30)),
           ShiftWindow(5, At(16, 30), At(21, 30)) }

\* the instant lies in window w and w started on the instant's own date
InWindowSameDay(w, now) ==
    /\ JakartaWeekday(now) = w.day
    /\ w.from <= JakartaTime(now)[2] /\ JakartaTime(now)[2] < w.to

\* the instant lies in the part of window w after midnight
InWindowAfterMidnight(w, now) ==
    /\ (JakartaWeekday(now) + 6) % 7 = w.day
    /\ w.from <= JakartaTime(now)[2] + 86400 /\ JakartaTime(now)[2] + 86400 < w.to

\* C22 as stated: an instant inside a window of the table gets the date on
\* which that window starts, also after midnight
C22_WindowStart ==
    ShiftCall
    => \A w \in ShiftWindows :
        /\ InWindowSameDay(w, ShiftInstant)
           => dateCall.out = Ok(JakartaDate(ShiftInstant))
        /\ InWindowAfterMidnight(w, ShiftInstant)
           => dateCall.out = Ok(DayBefore(ShiftInstant))

\* C22, amended: an instant inside a window of the table gets the date on
\* which that window starts, also after midnight for the night windows of
\* Monday to Thursday; in the part of Friday's night window after midnight
\* (Saturday before 06:30) it gets Saturday's date
C22_WindowStartButSaturdayMorning ==
    ShiftCall
    => \A w \in ShiftWindows :
        /\ InWindowSameDay(w, ShiftInstant)
           => dateCall.out = Ok(JakartaDate(ShiftInstant))
        /\ InWindowAfterMidnight(w, ShiftInstant)
           => dateCall.out = Ok(IF w.day = 4 THEN JakartaDate(ShiftInstant)
                                ELSE DayBefore(ShiftInstant))

\* an instant after midnight in a night window of Monday to Thursday, given
\* in another timezone, got the date before its Jakarta date
C22_Witness ==
    /\ ShiftCall
    /\ tzinfo_of(ShiftInstant) \notin { None, JAKARTA_TZ }
    /\ \E w \in ShiftWindows : w.day \in 0..3 /\ InWindowAfterMidnight(w, ShiftInstant)
    /\ dateCall.out = Ok(DayBefore(ShiftInstant))

\* C23: the call returns a date for every instant and never raises; on a
\* Sunday and on a Saturday before 06:30 the date is the instant's own
\* Jakarta date
C23_Total ==
    ShiftCall
    => /\ dateCall.out.raised = "none"
       /\ dateCall.out.value \in { JakartaDate(ShiftInstant), DayBefore(ShiftInstant) }
       /\ (\/ JakartaWeekday(ShiftInstant) = 6
           \/ JakartaWeekday(ShiftInstant) = 5
              /\ JakartaTime(ShiftInstant)[2] < FirstBoundary)
          => dateCall.out = Ok(JakartaDate(ShiftInstant))

\* the clock stood at a Sunday, before 06:30, and the call without an
\* argument returned that Sunday's date
C23_Witness ==
    /\ ShiftCall /\ dateCall.args[1] = None
    /\ JakartaWeekday(ShiftInstant) = 6
    /\ JakartaTime(ShiftInstant)[2] < FirstBoundary
    /\ dateCall.out = Ok(JakartaDate(ShiftInstant))

(***************************************************************************)
(* Claims about the endpoints over the registry                            *)
(***************************************************************************)
ProbeCall == apiCall.fn = "test_database_connections"
\* the probe has answered
ProbeDone == ProbeCall /\ apiCall.out.status_code \notin { Waiting, NoResponse }

\* the aliases of the registry: those that own an engine
Registry == Range(ASYNC_ENGINES) \cup Range(SYNC_ENGINES)

\* how many times x occurs in the sequence s
Occurrences(s, x) == Cardinality({ i \in DOMAIN s : s[i] = x })

\* C24: one run of the probe sends exactly one query to every alias of the
\* registry, synchronous ones included, and its result holds exactly one
\* entry per registered alias, whatever happened on the other aliases
C24_ProbeCoversRegistry ==
    ProbeDone =>
        /\ \A a \in Registry :
            /\ Occurrences(apiCall.out.queries, a) = 1
            /\ Cardinality({ i \in DOMAIN apiCall.out.databases :
                                apiCall.out.databases[i].alias = a }) = 1
        /\ \A i \in DOMAIN apiCall.out.databases :
            apiCall.out.databases[i].alias \in Registry

\* the aliases the loop of the probe goes through
Probed == apiCall.args[1]

\* the entry of alias a in the payload
EntryOf(a) ==
    apiCall.out.databases[CHOOSE i \in DOMAIN apiCall.out.databases :
                              apiCall.out.databases[i].alias = a]

\* C25: the probe answers with overall success exactly when every probed
\* alias reported "connected", and otherwise with status 503 and a payload
\* that lists every probed alias with its own status: the alias whose query
\* was the last to end reports what its get_session block came to
C25_ProbeVerdict ==
    ProbeDone =>
        /\ apiCall.out.status_code \in { 200, 503 }
        /\ apiCall.out.status_code = 200
           <=> \A i \in DOMAIN Probed : apiCall.out.databases[i].status = "connected"
        /\ apiCall.out.status_code = 200 <=> apiCall.out.status = "all_connected"
        /\ DOMAIN apiCall.out.databases = DOMAIN Probed
        /\ \A i \in DOMAIN Probed :
            /\ apiCall.out.databases[i].alias = Probed[i]
            /\ apiCall.out.databases[i].status \in { "connected", "error" }
            /\ Probed[i] \notin Range(apiCall.out.queries)
               => apiCall.out.databases[i].status = "error"
        /\ \A r \in Requests :
            req[r].kind = "api" /\ req[r].pc = "done"
            => EntryOf(req[r].alias).status =
                   IF req[r].outcome = "returned" THEN "connected" ELSE "error"

\* a probe answered 503 and its payload holds an alias that connected after
\* the alias that failed
C25_Witness ==
    /\ ProbeCall
    /\ apiCall.out.status_code = 503
    /\ \E i, j \in DOMAIN apiCall.out.databases :
        /\ i < j
        /\ apiCall.out.databases[i].status = "error"
        /\ apiCall.out.databases[j].status = "connected"

HmiCall == apiCall.fn = "get_data_by_pids"

\* the aliases of a family, by the prefix of their name
FamilyPrefix(router) ==
    CASE router = "banb-data" -> S_banb [] router = "ip-data" -> S_ip
      [] router = "ctm-data" -> S_ctm

\* C28: every query of a per-family router is sent to an alias of the
\* router's own family, with the db parameter given or omitted
C28_QueryStaysInFamily ==
    HmiCall /\ apiCall.out.target # None
    => /\ apiCall.out.target \in Range(AVAILABLE_DATABASES(apiCall.args[1]))
       /\ startswith(apiCall.out.target, FamilyPrefix(apiCall.args[1]))


(***************************************************************************)
(* Claims about the range filters                                          *)
(***************************************************************************)
\* a coroutine's range query has answered
RangeQuery == dateCall.fn \in Coroutines /\ dateCall.out.raised = "none"
BanburyQuery == dateCall.fn = "get_banbury_anomaly_results"
ChillerQuery == dateCall.fn = "get_chiller_status_history_by_range"
\* the get_session block of a query that answers
Answered == Ok("rows")
SameInstant(a, b) == Instant(a) = Instant(b)

\* the rows of the table the call reads that its arguments other than the
\* range select, and their timestamps
Candidates ==
    IF BanburyQuery
    THEN { row \in Range(BanburyAnomalyResult) :
                banbury_where(row, dateCall.args[4], None, None) }
    ELSE IF ChillerQuery
    THEN { row \in ChillerStatus : status_where(row, dateCall.args[3], None, None) }
    ELSE { row \in RtfData : row.PID = dateCall.args[3] /\ row.RxDate # None }
Timestamp(row) ==
    IF BanburyQuery THEN row.cycle_start
    ELSE IF ChillerQuery THEN row.upd_dt
    ELSE row.RxDate
RowsAt(bound) == { row \in Candidates : SameInstant(Timestamp(row), bound) }

\* the row is in what the query returned: a Banbury row itself, an HMI row by
\* its rxdate, a status row by the bucket of its device it is averaged in
InAnswer(row, out) ==
    IF BanburyQuery THEN row \in Range(out.value.result)
    ELSE IF ChillerQuery
    THEN \E i \in DOMAIN out.value.result :
            /\ out.value.result[i].device_id = _format_chiller_name(row.device_id)
            /\ bucket_time(row.upd_dt) \in Range(out.value.result[i].history)
    ELSE /\ out.value.result # None
         /\ isoformat(row.RxDate, " ") \in Range(out.value.result[3])

\* the limit of an HMI query may have left rows of the range out
Cut ==
    /\ ~ BanburyQuery /\ ~ ChillerQuery
    /\ dateCall.out.value.result # None
    /\ Len(dateCall.out.value.result[3]) = dateCall.args[4]

\* the range is not empty: its start is before its end
StartBeforeEnd ==
    \/ dateCall.out.value.start = None
    \/ dateCall.out.value.end = None
    \/ Earlier(dateCall.out.value.start, dateCall.out.value.end)

\* the start of a range that is not empty is selected, the end is not
HalfOpen ==
    /\ dateCall.out.value.start # None /\ StartBeforeEnd /\ ~ Cut
       => \A row \in RowsAt(dateCall.out.value.start) : InAnswer(row, dateCall.out)
    /\ dateCall.out.value.end # None
       => \A row \in RowsAt(dateCall.out.value.end) : ~ InAnswer(row, dateCall.out)

\* the queries of 2024-12-04 and of 2024-12-05 select no row in common; the
\* chiller and the anomaly resolvers take the day as both ends of the range
AdjacentDaysDisjoint ==
    /\ BanburyQuery /\ Keys = << DK_2024_12_04, DK_2024_12_04 >>
       => \A row \in Candidates :
            ~ /\ InAnswer(row, dateCall.out)
              /\ InAnswer(row, get_banbury_anomaly_results(
                                    dateCall.args[4], dateCall.args[3], DK_2024_12_05,
                                    DK_2024_12_05, Answered))
    /\ dateCall.fn \in HmiPairResolvers /\ Keys = << DK_20241204, None >>
       => \A row \in Candidates :
            ~ /\ InAnswer(row, dateCall.out)
              /\ InAnswer(row, fetch_rtf_data_by_pid_and_range(
                                    dateCall.args[3], dateCall.args[4], DK_20241205, None,
                                    Answered))
    /\ ChillerQuery /\ Keys = << DK_20241204, DK_20241204 >>
       => \A row \in Candidates :
            ~ /\ InAnswer(row, dateCall.out)
              /\ InAnswer(row, get_chiller_status_history_by_range(
                                    dateCall.args[3], DK_20241205, DK_20241205, Answered))

\* C26: every range filter built from a resolved date range is half-open: a
\* row at the start of the range is selected and a row at the end of the range
\* is not, so that the queries of two adjacent days share no row, in the HMI
\* queries, the chiller history query and the Banbury cycle_start query
C26_HalfOpen == RangeQuery => HalfOpen /\ AdjacentDaysDisjoint

\* the part of C26 that holds: the HMI and the chiller queries are half-open
C26_HalfOpenButBanbury ==
    RangeQuery /\ ~ BanburyQuery
    => HalfOpen /\ AdjacentDaysDisjoint

\* a row at the end of the range of an HMI or chiller query, which leaves it out
C26_RowAtEndLeftOut ==
    /\ RangeQuery /\ ~ BanburyQuery
    /\ dateCall.out.value.end # None
    /\ RowsAt(dateCall.out.value.end) # { }
    /\ StartBeforeEnd /\ RowsAt(dateCall.out.value.start) # { }


(***************************************************************************)
(* Claims about the failures of the date-key resolver                      *)
(***************************************************************************)
\* C29: _resolve_date_key returns a range or fails with a ValueError for
\* every key, the keys at the edge of the calendar included, so that the
\* range endpoint answers a resolver failure with HTTP 400 and never with a
\* server error
C29_OnlyValueError ==
    /\ dateCall.fn = "_resolve_date_key" => dateCall.out.raised \in { "none", "ValueError" }
    /\ dateCall.fn = "get_banb_data_by_range" /\ (\A r \in Requests : req[r].pc = "idle")
       => dateCall.out.raised # "HTTP 500"

\* the part of C29 that holds: a key other than YYYY1231 of the last year fails
\* with a ValueError or not at all
C29_OnlyValueErrorButLastDay ==
    dateCall.fn = "_resolve_date_key" /\ dateCall.args # << zfill(99991231, 8) >>
    => dateCall.out.raised \in { "none", "ValueError" }


(***************************************************************************)
(* Claims about the worker of a cancelled CMMS request                     *)
(***************************************************************************)
\* the borrowed count of the synchronous pool counts the workers inside
\* "with engine.connect()" and nothing else
SyncPoolHeld ==
    \A a \in Range(SYNC_ENGINES) :
        borrowed[a] = Cardinality({ q \in Requests : worker[q].state = "connected" })

\* C30: a blocking CMMS query in flight runs to completion, also when the
\* request awaiting it is cancelled, and its connection goes back to the
\* synchronous pool: on every path a worker that holds a connection
\* eventually finishes and the borrowed count of the pool no longer counts it
C30_WorkerCompletes ==
    \A r \in Requests :
        (worker[r].state = "connected") ~> (worker[r].state = "finished" /\ SyncPoolHeld)

\* the request was cancelled while its query was in flight; the worker has
\* finished the query and the pool is back at zero
C30_Witness ==
    \E r \in Requests :
        /\ req[r].kind = "cmms" /\ req[r].outcome = "cancelled"
        /\ worker[r].state = "finished" /\ worker[r].result = "rows"
        /\ S_cmms \in Range(SYNC_ENGINES) /\ borrowed[S_cmms] = 0

====
